---- MODULE Spec2Model ----
(***************************************************************************)
(* The local Node pipeline of search-visibility-v2: Preflight              *)
(* (buildPreflight.js), Takeoff (buildTakeOff.js), Landing                 *)
(* (landThePlane.js) and the governor (governor.js), with the three JSON   *)
(* files through which the phases hand their output to one another.        *)
(*                                                                         *)
(* One operating-system process runs at a time (pc # "idle"); it is        *)
(* started by the user and can be killed at any point.  The external SERP  *)
(* API is the environment: task_post answers are chosen per call, the      *)
(* task_get behaviour of a task is fixed per task id (endpoint).           *)
(*                                                                         *)
(* JavaScript values: an object with string keys is a function, an array   *)
(* a sequence; a falsy task id ("", null, undefined) is NoTask.            *)
(***************************************************************************)
EXTENDS Integers, Sequences, FiniteSets, TLC

VARIABLES
    rankingPages,    \* ranking_pages.json: the tracked (location, service) rows per city
    serviceLocationData, \* service_location_data.json
    placeholders,    \* placeholder.json: the templates
    preflightFile,   \* pre-flight-output.json
    preFlight,       \* buildTakeOff: the parsed Preflight output
    takeOffObject,   \* buildTakeOff: the output being built
    processedItem,   \* buildTakeOff: the item being built
    tcur,            \* buildTakeOff: loop indices [g, i, k]
    nextTaskId,      \* the service: the id the next created task gets
    postLog,         \* history: the task_post calls of this run, in order
    phaseLog,        \* history: the phases the running program has executed
    takeoffFile,     \* takeoff-output.json
    landingFile,     \* landing-results.json
    endpoint,        \* task id -> behaviour of task_get for that task
    pc,              \* where the running process is ("idle": none runs)
    takeOffData,     \* landThePlane: the parsed Takeoff output
    results,         \* landThePlane: the result collection
    totalKeywords,   \* landThePlane: countTotalKeywords(takeOffData)
    processedCount,  \* landThePlane: the running processed-count
    cur,             \* landThePlane: loop indices [g, i, k] and newItem
    attempts,        \* getSerpResults: attempts of the current poll loop
    getLog,          \* history: per task id, task_get calls, their answers and outcome of this run
    visited,         \* history: keyword iterations begun in this run
    saves,           \* history: writes of landing-results.json in this run
    sinceSave,       \* history: keywords that became terminal since the last write
    loaded,          \* history: what loadCheckpoint returned in this run
    file0,           \* history: landing-results.json when the first run started
    launch,          \* history: the files as they were when the running program started
    launches,        \* history: the programs started so far
    lastRun,         \* history: how the last process ended
    variant,         \* Sheets: which script is installed ("history" or "desktop")
    apiKey,          \* Sheets: whether the script property 'basic' is set
    sheetRows,       \* Sheets: the data rows of the tracked sheet (row i is data[i])
    taskColumns,     \* Sheets, history script: the Task ID / Rank column groups, oldest first
    rankCells,       \* Sheets, desktop script: the fixed rank and URL cells per row
    props,           \* Sheets, desktop script: the stored task list and its timestamp
    clock,           \* Sheets: the time in minutes
    audit,           \* Sheets: the submit_requests tab
    script,          \* Sheets: the running script function, its position and locals
    sheetLog,        \* history: the calls of the script (task_post, task_get) and the time
    budget           \* history: script functions started, clock advances and failed calls so far

landingVars == <<takeOffData, results, totalKeywords, processedCount, cur, attempts>>
historyVars == <<getLog, visited, saves, sinceSave, loaded, file0, launch, lastRun>>
inputVars == <<rankingPages, serviceLocationData, placeholders>>
takeoffVars == <<preFlight, takeOffObject, processedItem, tcur>>
upstreamVars == <<inputVars, preflightFile, takeoffVars, nextTaskId, postLog, phaseLog>>
sheetVars == <<variant, apiKey, sheetRows, taskColumns, rankCells, props, clock, audit, script,
               sheetLog, budget>>
pipelineVars == <<upstreamVars, takeoffFile, landingFile, pc, landingVars, historyVars, launches>>
vars == <<pipelineVars, endpoint, sheetVars>>

-----------------------------------------------------------------------------
(* Program constants *)

SaveEvery == 20
maxAttempts == 30

(* Bounds of the model *)

MaxRounds == 2

-----------------------------------------------------------------------------
(* Values *)

NoTask == 0
Undefined == "undefined"
Absent == [kind |-> "absent", val |-> <<>>]
Garbage == [kind |-> "garbage", val |-> <<>>]
JsonFile(v) == [kind |-> "json", val |-> v]
EmptyMap == [x \in {} |-> 0]

Min(a, b) == IF a < b THEN a ELSE b

(* f with key k set to v (JavaScript obj[k] = v) *)
Put(f, k, v) == [x \in (DOMAIN f) \cup {k} |-> IF x = k THEN v ELSE f[x]]

RECURSIVE SumSeq(_)
SumSeq(s) == IF s = <<>> THEN 0 ELSE Head(s) + SumSeq(Tail(s))

(* Array.prototype.find on the service name: the first index, 0 when none *)
FirstWithService(items, service) ==
    LET hits == {j \in 1..Len(items) : items[j].service = service}
    IN IF hits = {} THEN 0 ELSE CHOOSE j \in hits : \A h \in hits : j <= h

(* items.find(item => item.service === service) on the Takeoff items *)
FindService(items, service) == FirstWithService(items, service)

(* a find that compares the wrong field finds nothing *)
FindContainerNever(containers, service) == 0

(* results[location].find(existing => existing.service === service) *)
FindContainer(containers, service) == FirstWithService(containers, service)

-----------------------------------------------------------------------------
(* The task_get payload and the extraction of rankings from it.  A URL is   *)
(* a sequence of text pieces; String.includes is containment of the piece   *)
(* sequence of the searched text.                                           *)

topDomain == <<"aaacwildliferemoval.com">>

UrlOurs == <<"https://", "dallas.", "aaacwildliferemoval.com", "/service-area/garland/">>
UrlOurs2 == <<"https://", "aaacwildliferemoval.com", "/">>
UrlOther == <<"https://", "example.com", "/">>

Includes(text, part) ==
    \E s \in 0..(Len(text) - Len(part)) :
        \A j \in 1..Len(part) : text[s + j] = part[j]

Page(items) == [hasItems |-> TRUE, items |-> items]
PageWithoutItems == [hasItems |-> FALSE, items |-> <<>>]
Item(type, rank, url) == [type |-> type, rank_group |-> rank, url |-> url]

(* the test of item.type left out: every item with a rank and our domain is kept *)
RECURSIVE PageRankingsAnyType(_)
PageRankingsAnyType(items) ==
    IF items = <<>> THEN <<>>
    ELSE LET it == Head(items)
             keep == /\ it.rank_group # 0
                     /\ it.url # <<>>
                     /\ Includes(it.url, <<"aaacwildliferemoval.com">>)
         IN (IF keep THEN <<[rank |-> it.rank_group, url |-> it.url]>> ELSE <<>>)
                \o PageRankingsAnyType(Tail(items))

(* the organic items of our domain of one page, in item order *)
RECURSIVE PageRankings(_)
PageRankings(items) ==
    IF items = <<>> THEN <<>>
    ELSE LET it == Head(items)
             keep == /\ it.type = "organic"
                     /\ it.rank_group # 0
                     /\ it.url # <<>>
                     /\ Includes(it.url, topDomain)
         IN (IF keep THEN <<[rank |-> it.rank_group, url |-> it.url]>> ELSE <<>>)
                \o PageRankings(Tail(items))

(* only the first page read (serpResults[0]), the later pages ignored *)
extractRankingDataFirstPage(serpResults) ==
    IF serpResults = <<>> \/ ~Head(serpResults).hasItems THEN <<>>
    ELSE PageRankingsAnyType(SelectSeq(Head(serpResults).items,
                                       LAMBDA it : it.type = "organic"))

RECURSIVE extractRankingData(_)
extractRankingData(serpResults) ==
    IF serpResults = <<>> THEN <<>>
    ELSE (IF Head(serpResults).hasItems THEN PageRankings(Head(serpResults).items) ELSE <<>>)
            \o extractRankingData(Tail(serpResults))

(* The payloads the modelled service returns *)
Payloads ==
    << <<Page(<<Item("organic", 3, UrlOurs), Item("organic", 1, UrlOther)>>)>>,
       <<Page(<<Item("paid", 1, UrlOurs), Item("organic", 2, UrlOther)>>)>>,
       <<PageWithoutItems,
         Page(<<Item("organic", 0, UrlOurs), Item("organic", 5, UrlOurs2),
                Item("featured", 2, UrlOurs), Item("organic", 7, UrlOurs)>>)>> >>

PayloadOf(t) == Payloads[(t % Len(Payloads)) + 1]

Ready(t) == [kind |-> "ready", result |-> PayloadOf(t)]
Never == [kind |-> "never", result |-> <<>>]

-----------------------------------------------------------------------------
(* landThePlane.js: the pure parts *)

Entry(status, rankings) == [status |-> status, rankings |-> rankings]

Container(item) ==
    [location |-> item.location, service |-> item.service,
     intended_url |-> item.intended_url, geo_coordinate |-> item.geo_coordinate,
     keywords |-> EmptyMap]

Locations(data) == {data[g].location : g \in 1..Len(data)}
GroupOf(data, location) == CHOOSE g \in 1..Len(data) : data[g].location = location

countTotalKeywords(data) ==
    SumSeq([g \in 1..Len(data) |->
        SumSeq([i \in 1..Len(data[g].items) |-> Len(data[g].items[i].keywords)])])

CompletedIn(container) ==
    Cardinality({k \in DOMAIN container.keywords : container.keywords[k].status = "completed"})

(* Object.entries of null or of a missing keywords map raises a TypeError *)
CountThrows(res) == res.shape \in {"null", "nokeywords"}

countProcessedKeywords(res) ==
    LET perGroup(l) == SumSeq([j \in 1..Len(res.groups[l]) |-> CompletedIn(res.groups[l][j])])
        RECURSIVE Over(_)
        Over(ls) == IF ls = {} THEN 0
                    ELSE LET l == CHOOSE x \in ls : TRUE IN perGroup(l) + Over(ls \ {l})
    IN Over(DOMAIN res.groups)

FreshResults(data) ==
    [shape |-> "object",
     groups |-> [l \in Locations(data) |->
        LET items == data[GroupOf(data, l)].items
        IN [i \in 1..Len(items) |-> Container(items[i])]]]

(* JSON.parse of the checkpoint file: the value it denotes *)
ParseCheckpoint(file) ==
    IF file.kind = "snapshot" THEN [shape |-> "object", groups |-> file.val]
    ELSE [shape |-> IF file.kind = "list" THEN "array" ELSE file.kind, groups |-> EmptyMap]

LoadsCheckpoint(file) == file.kind \notin {"absent", "garbage"}

loadCheckpoint(file, data) ==
    IF LoadsCheckpoint(file) THEN ParseCheckpoint(file) ELSE FreshResults(data)

(* JSON.stringify(results): the named properties set on an array are not written *)
Stringify(res) ==
    IF res.shape = "array" THEN [kind |-> "list", val |-> <<>>]
    ELSE [kind |-> "snapshot", val |-> res.groups]

(* a status compared with a word the program never writes skips nothing *)
AlreadyCompletedTypo(container, keyword) ==
    /\ keyword \in DOMAIN container.keywords
    /\ container.keywords[keyword].status = "complete"

(* any entry of the checkpoint taken for done *)
AlreadyCompletedAnyStatus(container, keyword) == keyword \in DOMAIN container.keywords

(* the guard of the skip-on-resume test *)
AlreadyCompleted(container, keyword) ==
    /\ keyword \in DOMAIN container.keywords
    /\ container.keywords[keyword].status = "completed"

ShouldPoll(keywordData) == keywordData.status = "submitted" /\ keywordData.task_id # NoTask

(* a loop without the budget *)
LoopContinuesForever(n) == n >= 0

LoopContinuesOneMore(n) == n <= maxAttempts

(* while (attempts < maxAttempts) *)
LoopContinues(n) == n < maxAttempts

SaveDue(count) == count % SaveEvery = 0

-----------------------------------------------------------------------------
(* Landing: landing() and landThePlane() of landThePlane.js *)

NoCur == [g |-> 0, i |-> 0, k |-> 0, newItem |-> 0]
NoResults == [shape |-> "object", groups |-> EmptyMap]

TaskIds(data) ==
    UNION {UNION {{data[g].items[i].keywords[k].task_id : k \in 1..Len(data[g].items[i].keywords)} :
                    i \in 1..Len(data[g].items)} : g \in 1..Len(data)} \ {NoTask}

CurGroup == takeOffData[cur.g]
CurItem == CurGroup.items[cur.i]
CurKeyword == CurItem.keywords[cur.k]
CurContainer == results.groups[CurGroup.location][cur.newItem]

(* the entry is not stored *)
SetEntryDropped(res, location, j, keyword, entry) == res

(* results with newItem.keywords[keyword] = entry *)
SetEntry(res, location, j, keyword, entry) ==
    [res EXCEPT !.groups[location][j].keywords = Put(@, keyword, entry)]

ResetLanding ==
    /\ takeOffData' = <<>>
    /\ results' = NoResults
    /\ totalKeywords' = 0
    /\ processedCount' = 0
    /\ cur' = NoCur
    /\ attempts' = 0

Launch(program) ==
    [program |-> program, preflight |-> preflightFile, takeoff |-> takeoffFile,
     landing |-> landingFile]
NoLaunch == [program |-> "none", preflight |-> Absent, takeoff |-> Absent, landing |-> Absent]

(* a missing input treated as an empty one goes straight to the write of the output *)
LandingEntryDefault(file) == IF file.kind = "absent" THEN "l_write" ELSE "l_load"

(* landing(): if (!fs.existsSync(takeoff-output.json)) return; else landThePlane *)
LandingEntry(file) == IF file.kind = "absent" THEN "idle" ELSE "l_load"

NoTcur == [g |-> 0, i |-> 0, k |-> 0]

ResetTakeoff ==
    /\ preFlight' = <<>>
    /\ takeOffObject' = <<>>
    /\ processedItem' = <<>>
    /\ tcur' = NoTcur

(* a program is started: nothing of an earlier process is left but the files *)
StartProgram(program) ==
    /\ pc = "idle"
    /\ launch' = Launch(program)
    /\ ResetTakeoff
    /\ ResetLanding
    /\ getLog' = EmptyMap
    /\ visited' = 0
    /\ saves' = 0
    /\ sinceSave' = 0
    /\ loaded' = NoResults
    /\ postLog' = <<>>
    /\ phaseLog' = <<>>
    /\ UNCHANGED <<inputVars, preflightFile, takeoffFile, landingFile, nextTaskId, endpoint, file0>>

(* node landThePlane.js: landing() up to the call of landThePlane *)
LandingStart ==
    /\ StartProgram("landing")
    /\ pc' = LandingEntry(takeoffFile)
    /\ lastRun' = IF pc' = "idle" THEN "exit" ELSE "running"

(* landThePlane up to its first loop: the Takeoff output is read, the checkpoint *)
(* loaded and the keywords counted; an exception ends landing() in its catch     *)
LandLoad ==
    /\ pc = "l_load"
    /\ IF takeoffFile.kind # "json" \/ CountThrows(loadCheckpoint(landingFile, takeoffFile.val))
          THEN /\ lastRun' = "failed"
               /\ pc' = "idle"
               /\ UNCHANGED <<landingVars, loaded, getLog>>
          ELSE /\ takeOffData' = takeoffFile.val
               /\ results' = loadCheckpoint(landingFile, takeoffFile.val)
               /\ loaded' = results'
               /\ totalKeywords' = countTotalKeywords(takeoffFile.val)
               /\ processedCount' = countProcessedKeywords(results')
               /\ getLog' = [t \in TaskIds(takeoffFile.val) |->
                                [calls |-> 0, outcome |-> "none", last |-> "none",
                                 thrown |-> FALSE, notReady |-> FALSE]]
               /\ pc' = "l_group"
               /\ UNCHANGED <<cur, attempts, lastRun>>
    /\ phaseLog' = Append(phaseLog, "landing")
    /\ UNCHANGED <<inputVars, preflightFile, takeoffVars, nextTaskId, postLog, takeoffFile,
                   landingFile, endpoint, visited, saves, sinceSave, file0, launch>>

(* results[location] = [] without the test *)
EnsureGroupReset(res, location) == [res EXCEPT !.groups = Put(@, location, <<>>)]

(* if (!results[location]) results[location] = [] *)
EnsureGroup(res, location) ==
    IF location \in DOMAIN res.groups THEN res
    ELSE [res EXCEPT !.groups = Put(@, location, <<>>)]

(* the container of item in results[location], appended when none is found *)
EnsureItem(res, group, item) ==
    LET originalItem == group.items[FindService(group.items, item.service)]
    IN IF FindContainer(res.groups[group.location], item.service) # 0 THEN res
       ELSE [res EXCEPT !.groups[group.location] = Append(@, Container(originalItem))]

ItemIndex(res, group, item) ==
    LET found == FindContainer(res.groups[group.location], item.service)
    IN IF found # 0 THEN found ELSE Len(res.groups[group.location]) + 1

(* for (const [location, items] of Object.entries(takeOffData)) *)
LandGroup ==
    /\ pc = "l_group"
    /\ IF cur.g < Len(takeOffData)
          THEN /\ cur' = [NoCur EXCEPT !.g = cur.g + 1]
               /\ results' = EnsureGroup(results, takeOffData[cur.g + 1].location)
               /\ pc' = "l_item"
          ELSE /\ pc' = "l_final"
               /\ UNCHANGED <<cur, results>>
    /\ UNCHANGED <<upstreamVars, takeoffFile, landingFile, endpoint, takeOffData, totalKeywords,
                   processedCount, attempts, historyVars>>

(* for (const item of items): find the container of the service or create it *)
LandItem ==
    /\ pc = "l_item"
    /\ IF cur.i < Len(CurGroup.items)
          THEN LET item == CurGroup.items[cur.i + 1]
               IN /\ results' = EnsureItem(results, CurGroup, item)
                  /\ cur' = [cur EXCEPT !.i = cur.i + 1, !.k = 0,
                                        !.newItem = ItemIndex(results, CurGroup, item)]
                  /\ pc' = "l_kw"
          ELSE /\ pc' = "l_group"
               /\ UNCHANGED <<cur, results>>
    /\ UNCHANGED <<upstreamVars, takeoffFile, landingFile, endpoint, takeOffData, totalKeywords,
                   processedCount, attempts, historyVars>>

(* for (const [keyword, keywordData] of Object.entries(keywords)): the skip of a *)
(* completed keyword, the start of the poll loop, or the skipped branch          *)
LandKeyword ==
    /\ pc = "l_kw"
    /\ IF cur.k < Len(CurItem.keywords)
          THEN LET keywordData == CurItem.keywords[cur.k + 1]
               IN /\ cur' = [cur EXCEPT !.k = cur.k + 1]
                  /\ visited' = visited + 1
                  /\ IF AlreadyCompleted(CurContainer, keywordData.keyword)
                        THEN /\ pc' = "l_kw"
                             /\ UNCHANGED <<results, processedCount, attempts, sinceSave>>
                        ELSE IF ShouldPoll(keywordData)
                        THEN /\ pc' = "l_poll"
                             /\ attempts' = 0
                             /\ UNCHANGED <<results, processedCount, sinceSave>>
                        ELSE /\ results' = SetEntry(results, CurGroup.location, cur.newItem,
                                                    keywordData.keyword, Entry("skipped", <<>>))
                             /\ processedCount' = processedCount + 1
                             /\ sinceSave' = sinceSave + 1
                             /\ pc' = "l_kw"
                             /\ UNCHANGED attempts
          ELSE /\ pc' = "l_item"
               /\ UNCHANGED <<cur, visited, results, processedCount, attempts, sinceSave>>
    /\ UNCHANGED <<upstreamVars, takeoffFile, landingFile, endpoint, takeOffData, totalKeywords,
                   getLog, saves, loaded, file0, launch, lastRun>>

(* the keyword has become terminal: count it and save when the count is a multiple of 20 *)
AfterPoll(entry, outcome) ==
    /\ results' = SetEntry(results, CurGroup.location, cur.newItem, CurKeyword.keyword, entry)
    /\ processedCount' = processedCount + 1
    /\ sinceSave' = sinceSave + 1
    /\ getLog' = [getLog EXCEPT ![CurKeyword.task_id].calls = @ + 1,
                                ![CurKeyword.task_id].outcome = outcome]
    /\ pc' = IF SaveDue(processedCount + 1) THEN "l_save" ELSE "l_kw"
    /\ UNCHANGED attempts

(* One axios.get of getSerpResults and what follows it without a further call.  *)
(* A call that is not answered with a result either returns a task without      *)
(* result or throws: both branches wait and add one to attempts.                *)
Poll ==
    /\ pc = "l_poll"
    /\ IF endpoint[CurKeyword.task_id].kind = "ready"
          THEN AfterPoll(Entry("completed", extractRankingData(endpoint[CurKeyword.task_id].result)),
                         "completed")
          ELSE IF LoopContinues(attempts + 1)
          THEN /\ attempts' = attempts + 1
               /\ getLog' = [getLog EXCEPT ![CurKeyword.task_id].calls = @ + 1]
               /\ UNCHANGED <<results, processedCount, sinceSave, pc>>
          ELSE AfterPoll(Entry("error", <<>>), "error")
    /\ UNCHANGED <<upstreamVars, takeoffFile, landingFile, endpoint, takeOffData, totalKeywords, cur,
                   visited, saves, loaded, file0, launch, lastRun>>

(* attempts++ of a thrown call left out *)
NextAttemptsThrownFree(answer, n) == IF answer = "throws" THEN n ELSE n + 1

(* attempts++ in the not-ready branch and in the catch of getSerpResults *)
NextAttempts(answer, n) == n + 1

Answers == {"result", "notready", "throws"}

(* One axios.get of getSerpResults with each answer the service can give: a task with
   a result (only for a task that has one), a task without result, or an exception *)
PollCall ==
    /\ pc = "l_poll"
    /\ \E answer \in Answers :
          LET id == CurKeyword.task_id
              called == [getLog EXCEPT ![id].calls = @ + 1,
                                       ![id].last = answer,
                                       ![id].thrown = @ \/ answer = "throws",
                                       ![id].notReady = @ \/ answer = "notready"]
              terminal(entry, outcome) ==
                  /\ results' = SetEntry(results, CurGroup.location, cur.newItem,
                                         CurKeyword.keyword, entry)
                  /\ processedCount' = processedCount + 1
                  /\ sinceSave' = sinceSave + 1
                  /\ getLog' = [called EXCEPT ![id].outcome = outcome]
                  /\ pc' = IF SaveDue(processedCount + 1) THEN "l_save" ELSE "l_kw"
          IN /\ answer = "result" => endpoint[id].kind = "ready" /\ endpoint[id].result # <<>>
             /\ IF answer = "result"
                THEN /\ terminal(Entry("completed", extractRankingData(endpoint[id].result)),
                                 "completed")
                     /\ UNCHANGED attempts
                ELSE /\ attempts' = NextAttempts(answer, attempts)
                     /\ IF LoopContinues(attempts')
                        THEN /\ getLog' = called
                             /\ UNCHANGED <<results, processedCount, sinceSave, pc>>
                        ELSE terminal(Entry("error", <<>>), "error")
    /\ UNCHANGED <<upstreamVars, takeoffFile, landingFile, endpoint, takeOffData, totalKeywords, cur,
                   visited, saves, loaded, file0, launch, lastRun>>

(* saveCheckpoint(results, processedCount, totalKeywords): called inside the loop every
   SaveEvery-th polled keyword and once more after the loop *)
SaveCheckpoint ==
    /\ pc \in {"l_save", "l_final"}
    /\ landingFile' = Stringify(results)
    /\ saves' = saves + 1
    /\ sinceSave' = 0
    /\ pc' = IF pc = "l_save" THEN "l_kw" ELSE "l_write"
    /\ UNCHANGED <<upstreamVars, takeoffFile, endpoint, landingVars, getLog, visited, loaded, file0, launch, lastRun>>

(* landing(): fs.writeFileSync of what landThePlane returned *)
LandingWrite ==
    /\ pc = "l_write"
    /\ landingFile' = Stringify(results)
    /\ saves' = saves + 1
    /\ sinceSave' = 0
    /\ pc' = "idle"
    /\ lastRun' = "done"
    /\ UNCHANGED <<upstreamVars, takeoffFile, endpoint, landingVars, getLog, visited, loaded, file0, launch>>

LandingPcs == {"l_load", "l_group", "l_item", "l_kw", "l_poll", "l_save", "l_final", "l_write"}
WritingPcs == {"l_save", "l_final", "l_write"}

(* the process is killed; killed inside writeFileSync it may leave a truncated file *)
CrashLanding ==
    /\ pc \in LandingPcs
    /\ pc' = "idle"
    /\ lastRun' = "crashed"
    /\ ResetLanding
    /\ \E truncated \in {b \in BOOLEAN : b => pc \in WritingPcs} :
          landingFile' = IF truncated THEN Garbage ELSE landingFile
    /\ getLog' = EmptyMap
    /\ visited' = 0
    /\ saves' = 0
    /\ sinceSave' = 0
    /\ loaded' = NoResults
    /\ UNCHANGED <<upstreamVars, takeoffFile, endpoint, file0, launch>>

-----------------------------------------------------------------------------
(* buildPreflight.js.  A text is a sequence of pieces; a placeholder is one  *)
(* piece, in any letter case (the regular expressions carry the i flag).     *)

NoGeo == "null"

KeywordHoles == {"{keyword}", "{Keyword}", "{KEYWORD}"}
LocationHoles == {"{location}", "{Location}", "{LOCATION}"}
BrandHoles == {"{brand}", "{Brand}", "{BRAND}"}

toLowerCase(name) ==
    CASE name = "Garland" -> "garland"
      [] name = "Plano" -> "plano"
      [] OTHER -> name

(* template.replace(/\{hole\}/gi, value) *)
Replace(template, holes, value) ==
    [j \in 1..Len(template) |-> IF template[j] \in holes THEN value ELSE template[j]]

ExpandTemplate(template, keyword, location, brand) ==
    Replace(Replace(Replace(template, KeywordHoles, keyword),
                    LocationHoles, toLowerCase(location)),
            BrandHoles, brand)

(* the push moved out of the inner loop: one query per keyword, of the last template *)
ExpandKeywordsLastTemplate(keyword_list, templates, location, brand) ==
    IF templates = <<>> THEN <<>>
    ELSE [n \in 1..Len(keyword_list) |->
            ExpandTemplate(templates[Len(templates)], keyword_list[n], location, brand)]

(* the two loops exchanged: placeholders.forEach(template => keyword_list.forEach(...)) *)
ExpandKeywordsLoopsExchanged(keyword_list, templates, location, brand) ==
    [n \in 1..(Len(keyword_list) * Len(templates)) |->
        ExpandTemplate(templates[((n - 1) \div Len(keyword_list)) + 1],
                       keyword_list[((n - 1) % Len(keyword_list)) + 1],
                       location, brand)]

(* keyword_list.forEach(keyword => placeholders.forEach(template => push)) *)
ExpandKeywords(keyword_list, templates, location, brand) ==
    [n \in 1..(Len(keyword_list) * Len(templates)) |->
        ExpandTemplate(templates[((n - 1) % Len(templates)) + 1],
                       keyword_list[((n - 1) \div Len(templates)) + 1],
                       location, brand)]

FirstNamed(list, name) ==
    LET hits == {j \in 1..Len(list) : list[j].name = name}
    IN IF hits = {} THEN 0 ELSE CHOOSE j \in hits : \A h \in hits : j <= h

(* a row whose service has no definition given the keywords of the city's first one *)
PreflightItemAnyService(cityData, templates, row) ==
    LET l == FirstNamed(cityData.locations, row.location)
        v == FirstNamed(cityData.services, row.service)
        w == IF v # 0 THEN v ELSE 1
    IN [location |-> row.location, service |-> row.service, intended_url |-> row.intended_url,
        geo_coordinate |-> IF l # 0 THEN cityData.locations[l].geo_coordinate ELSE NoGeo,
        keywords |-> ExpandKeywords(cityData.services[w].keyword_list, templates,
                                    row.location, cityData.brand)]

(* item.location: undefined for a row without the property *)
RowLocation(row) == IF "location" \in DOMAIN row THEN row.location ELSE Undefined

(* the callback of map raises a TypeError: cityData.locations.find or             *)
(* cityData.services.find on a list that is missing, or item.location.toLowerCase *)
(* of a row without location, which is evaluated once per keyword and template    *)
ItemThrows(cityData, templates, row) ==
    \/ "locations" \notin DOMAIN cityData
    \/ "services" \notin DOMAIN cityData
    \/ /\ "location" \notin DOMAIN row
       /\ templates # <<>>
       /\ LET v == FirstNamed(cityData.services, row.service)
          IN v # 0 /\ cityData.services[v].keyword_list # <<>>

buildPreflightThrows(pages, data, templates) ==
    \E g \in 1..Len(pages) :
        /\ pages[g].city \in DOMAIN data
        /\ \E r \in 1..Len(pages[g].rows) : ItemThrows(data[pages[g].city], templates, pages[g].rows[r])

PreflightItem(cityData, templates, row) ==
    LET l == FirstNamed(cityData.locations, RowLocation(row))
        v == FirstNamed(cityData.services, row.service)
    IN [location |-> RowLocation(row), service |-> row.service, intended_url |-> row.intended_url,
        geo_coordinate |-> IF l # 0 THEN cityData.locations[l].geo_coordinate ELSE NoGeo,
        keywords |-> IF v # 0
                        THEN ExpandKeywords(cityData.services[v].keyword_list, templates,
                                            RowLocation(row), cityData.brand)
                        ELSE <<>>]

(* rows whose location has no geocode entry filtered out before the map *)
RECURSIVE buildPreflightLocatedOnly(_, _, _)
buildPreflightLocatedOnly(pages, data, templates) ==
    IF pages = <<>> THEN <<>>
    ELSE LET city == Head(pages).city
             rest == buildPreflightLocatedOnly(Tail(pages), data, templates)
             Located(row) == FirstNamed(data[city].locations, row.location) # 0
             rows == SelectSeq(Head(pages).rows, Located)
         IN IF city \notin DOMAIN data THEN rest
            ELSE <<[location |-> city,
                    items |-> [r \in 1..Len(rows) |->
                                 PreflightItem(data[city], templates, rows[r])]]>>
                 \o rest

RECURSIVE buildPreflight(_, _, _)
buildPreflight(pages, data, templates) ==
    IF pages = <<>> THEN <<>>
    ELSE LET city == Head(pages).city
             rest == buildPreflight(Tail(pages), data, templates)
         IN IF city \notin DOMAIN data THEN rest
            ELSE <<[location |-> city,
                    items |-> [r \in 1..Len(Head(pages).rows) |->
                                 PreflightItem(data[city], templates, Head(pages).rows[r])]]>>
                 \o rest

-----------------------------------------------------------------------------
(* Takeoff outputs for the Landing phase: `total` keywords with task ids     *)
(* 1..total in processing order, laid out over one or two items; the keyword *)
(* at position `sp` (0: none) is special: its task never gets a result, its  *)
(* submission failed, or it was recorded as submitted without a task id.     *)

Layouts == {"single", "groups", "services", "sameservice"}
SpecialKinds == {"never", "error", "noid"}

Totals == {n \in {SaveEvery * m + d : m \in 0..MaxRounds, d \in {-1, 0, 1}} : n >= 1}

KeywordRec(p, name, sp, kind) ==
    [keyword |-> name,
     task_id |-> IF p = sp /\ kind \in {"error", "noid"} THEN NoTask ELSE p,
     status |-> IF p = sp /\ kind = "error" THEN "error" ELSE "submitted"]

ItemRec(service, from, to, sp, kind) ==
    [location |-> "Garland", service |-> service, intended_url |-> "url",
     geo_coordinate |-> "32.91,-96.63",
     keywords |-> [j \in 1..(to - from + 1) |-> KeywordRec(from + j - 1, j, sp, kind)]]

Scenario(total, layout, sp, kind) ==
    LET h == total \div 2
        first(svc) == ItemRec(svc, 1, h, sp, kind)
        second(svc) == ItemRec(svc, h + 1, total, sp, kind)
    IN CASE layout = "single" ->
              <<[location |-> "g1", items |-> <<ItemRec("s1", 1, total, sp, kind)>>]>>
         [] layout = "groups" ->
              <<[location |-> "g1", items |-> <<first("s1")>>],
                [location |-> "g2", items |-> <<second("s1")>>]>>
         [] layout = "services" ->
              <<[location |-> "g1", items |-> <<first("s1"), second("s2")>>]>>
         [] layout = "sameservice" ->
              <<[location |-> "g1", items |-> <<first("s1"), second("s1")>>]>>

ScenarioEndpoint(total, sp, kind) ==
    [t \in 1..total |-> IF t = sp /\ kind = "never" THEN Never ELSE Ready(t)]

SpecialPositions(total) == {p \in {1, SaveEvery, total} : p <= total}

MalformedCheckpoints ==
    {[kind |-> "null", val |-> <<>>], [kind |-> "list", val |-> <<>>],
     [kind |-> "nokeywords", val |-> <<>>]}

(* no script installed: the Sheets side is empty and stays so *)
NoScript == [pc |-> "idle", handler |-> "none", items |-> <<>>, k |-> 0, taskResults |-> <<>>,
             taskIds |-> <<>>, results |-> <<>>, outcome |-> "none"]
NoProps == [present |-> FALSE, tasks |-> <<>>, timestamp |-> 0]

InitSheetIdle ==
    /\ variant = "none"
    /\ apiKey = FALSE
    /\ sheetRows = <<>>
    /\ taskColumns = <<>>
    /\ rankCells = <<>>
    /\ props = NoProps
    /\ clock = 0
    /\ audit = <<>>
    /\ script = NoScript
    /\ sheetLog = <<>>
    /\ budget = [handlers |-> 0, ticks |-> 0, faults |-> 0]

InitHistory ==
    /\ getLog = EmptyMap
    /\ visited = 0
    /\ saves = 0
    /\ sinceSave = 0
    /\ loaded = NoResults
    /\ launch = NoLaunch
    /\ lastRun = "none"

InitUpstreamIdle ==
    /\ preFlight = <<>>
    /\ takeOffObject = <<>>
    /\ processedItem = <<>>
    /\ tcur = NoTcur
    /\ postLog = <<>>
    /\ phaseLog = <<>>

InitIdle ==
    /\ pc = "idle"
    /\ takeOffData = <<>>
    /\ results = NoResults
    /\ totalKeywords = 0
    /\ processedCount = 0
    /\ cur = NoCur
    /\ attempts = 0

InitLanding ==
    /\ \E total \in Totals, layout \in Layouts, kind \in SpecialKinds :
       \E sp \in SpecialPositions(total) \cup {0} :
          /\ sp = 0 => kind = "never"
          /\ takeoffFile = JsonFile(Scenario(total, layout, sp, kind))
          /\ endpoint = ScenarioEndpoint(total, sp, kind)
    /\ landingFile \in {Absent} \cup MalformedCheckpoints
    /\ file0 = landingFile
    /\ InitIdle
    /\ InitHistory
    /\ InitUpstreamIdle
    /\ rankingPages = <<>>
    /\ serviceLocationData = EmptyMap
    /\ placeholders = <<>>
    /\ preflightFile = Absent
    /\ nextTaskId = 1
    /\ launches = 0
    /\ InitSheetIdle

(* a step of the running program or a kill: no program is started *)
Step(A) == A /\ UNCHANGED <<launches, sheetVars>>

NextLanding ==
    \/ Step(LandingStart)
    \/ Step(LandLoad)
    \/ Step(LandGroup)
    \/ Step(LandItem)
    \/ Step(LandKeyword)
    \/ Step(Poll)
    \/ Step(SaveCheckpoint)
    \/ Step(LandingWrite)
    \/ Step(CrashLanding)

SpecLanding == InitLanding /\ [][NextLanding]_vars

-----------------------------------------------------------------------------
(* landThePlane run from start to end without interruption and without a    *)
(* checkpoint, as a function of the Takeoff output and of what task_get     *)
(* answers for each task: the result it returns.                            *)

getSerpResultsOutcome(ep, task) ==
    IF ep[task].kind = "ready"
    THEN Entry("completed", extractRankingData(ep[task].result))
    ELSE Entry("error", <<>>)

RECURSIVE RunKeywords(_, _, _, _, _, _)
RunKeywords(res, ep, location, j, keywords, k) ==
    IF k > Len(keywords) THEN res
    ELSE LET keywordData == keywords[k]
             next == IF AlreadyCompleted(res.groups[location][j], keywordData.keyword)
                        THEN res
                     ELSE IF ShouldPoll(keywordData)
                        THEN SetEntry(res, location, j, keywordData.keyword,
                                      getSerpResultsOutcome(ep, keywordData.task_id))
                     ELSE SetEntry(res, location, j, keywordData.keyword, Entry("skipped", <<>>))
         IN RunKeywords(next, ep, location, j, keywords, k + 1)

RECURSIVE RunItems(_, _, _, _)
RunItems(res, ep, group, i) ==
    IF i > Len(group.items) THEN res
    ELSE LET item == group.items[i]
         IN RunItems(RunKeywords(EnsureItem(res, group, item), ep, group.location,
                                 ItemIndex(res, group, item), item.keywords, 1),
                     ep, group, i + 1)

RECURSIVE RunGroups(_, _, _, _)
RunGroups(res, ep, data, g) ==
    IF g > Len(data) THEN res
    ELSE RunGroups(RunItems(EnsureGroup(res, data[g].location), ep, data[g], 1), ep, data, g + 1)

Uninterrupted(data, ep) == RunGroups(FreshResults(data), ep, data, 1)

-----------------------------------------------------------------------------
(* Properties of Landing (SpecLanding) *)

KeywordPlaces(data) ==
    UNION {UNION {{<<g, i, k>> : k \in 1..Len(data[g].items[i].keywords)} :
                    i \in 1..Len(data[g].items)} : g \in 1..Len(data)}

(* the entry of keyword k of item i of group g in a result collection, as the  *)
(* program looks it up: the first container of the item's service              *)
HasEntry(groups, data, p) ==
    LET location == data[p[1]].location
        item == data[p[1]].items[p[2]]
    IN /\ location \in DOMAIN groups
       /\ FirstWithService(groups[location], item.service) # 0
       /\ item.keywords[p[3]].keyword \in
            DOMAIN groups[location][FirstWithService(groups[location], item.service)].keywords

EntryAt(groups, data, p) ==
    LET location == data[p[1]].location
        item == data[p[1]].items[p[2]]
    IN groups[location][FirstWithService(groups[location], item.service)]
            .keywords[item.keywords[p[3]].keyword]

CompletedAtStart(p) ==
    /\ HasEntry(loaded.groups, takeOffData, p)
    /\ EntryAt(loaded.groups, takeOffData, p).status = "completed"

TaskAt(p) == takeOffData[p[1]].items[p[2]].keywords[p[3]].task_id

Running == pc \in LandingPcs \ {"l_load"}
Finished == pc = "idle" /\ lastRun = "done"

(* C1: a keyword that is `completed` in the checkpoint Landing started from is   *)
(* never polled in that run (no task_get call for its task id), and its entry in *)
(* the result collection, in every snapshot written and in the final result is   *)
(* the checkpointed entry.                                                       *)
C1_IdempotentResume ==
    (Running \/ Finished) =>
        \A g \in 1..Len(takeOffData) : \A i \in 1..Len(takeOffData[g].items) :
            LET location == takeOffData[g].location
                item == takeOffData[g].items[i]
                j == IF location \in DOMAIN loaded.groups
                        THEN FirstWithService(loaded.groups[location], item.service) ELSE 0
            IN j # 0 =>
                \A k \in 1..Len(item.keywords) :
                    LET K == item.keywords[k].keyword
                        task == item.keywords[k].task_id
                        was == loaded.groups[location][j].keywords
                    IN (K \in DOMAIN was /\ was[K].status = "completed") =>
                        /\ task # NoTask => getLog[task].calls = 0
                        /\ K \in DOMAIN results.groups[location][j].keywords
                        /\ results.groups[location][j].keywords[K] = was[K]
                        /\ landingFile.kind = "snapshot" =>
                              /\ K \in DOMAIN landingFile.val[location][j].keywords
                              /\ landingFile.val[location][j].keywords[K] = was[K]

(* a run resumed from a checkpoint with completed keywords has polled the others and finished *)
C1_Witness ==
    /\ Finished
    /\ \E p \in KeywordPlaces(takeOffData) : CompletedAtStart(p)
    /\ \E t \in DOMAIN getLog : getLog[t].calls > 0

(* C2: when Landing, started without a checkpoint, is killed any number of times *)
(* at any point and re-run until it finishes, the final landing-results.json is  *)
(* the one an uninterrupted run writes for the same Takeoff output and the same  *)
(* task_get answers.                                                             *)
C2_CrashResumeEquivalence ==
    (Finished /\ file0.kind = "absent") =>
        /\ landingFile = Stringify(Uninterrupted(takeoffFile.val, endpoint))
        /\ results = Uninterrupted(takeoffFile.val, endpoint)

(* a finished run that resumed from a snapshot an earlier, killed run had saved *)
C2_Witness ==
    /\ Finished
    /\ file0.kind = "absent"
    /\ loaded # FreshResults(takeOffData)
    /\ \E t \in DOMAIN getLog : getLog[t].calls > 0
    /\ \E t \in DOMAIN getLog : endpoint[t].kind = "never" /\ getLog[t].outcome = "error"

(* C3: whenever a keyword has become terminal and the processed-count is a       *)
(* multiple of 20, the snapshot is written before the next keyword is taken up,  *)
(* so fewer than 20 keywords have become terminal since the last write.          *)
C3_CheckpointTrigger ==
    /\ pc # "l_save" => sinceSave < SaveEvery
    /\ (pc = "l_kw" /\ sinceSave > 0) => ~(processedCount % SaveEvery = 0)

AllSubmitted(data) ==
    \A p \in KeywordPlaces(data) : data[p[1]].items[p[2]].keywords[p[3]].status = "submitted"

(* C4: a Landing run without a checkpoint over N keywords that are all           *)
(* `submitted` has written landing-results.json floor(N/20) + 1 times when it    *)
(* has finished.                                                                 *)
C4_CheckpointCadence ==
    (Finished /\ loaded = FreshResults(takeOffData) /\ AllSubmitted(takeOffData)) =>
        saves = (totalKeywords \div SaveEvery) + 1

(* C5: the poll loop of a task that never gets a result makes exactly 30 calls,  *)
(* the keyword is then `error` with no rankings, and the run goes through every  *)
(* keyword of the input.                                                         *)
C5_PollTimeoutBound ==
    /\ \A t \in DOMAIN getLog :
          endpoint[t].kind = "never" =>
              /\ getLog[t].calls <= maxAttempts
              /\ getLog[t].outcome # "none" =>
                    getLog[t].calls = maxAttempts /\ getLog[t].outcome = "error"
    /\ (pc \in {"l_kw", "l_save"} /\ cur.k >= 1 /\ CurKeyword.task_id # NoTask) =>
          ((endpoint[CurKeyword.task_id].kind = "never"
                /\ getLog[CurKeyword.task_id].outcome # "none") =>
             CurContainer.keywords[CurKeyword.keyword] = Entry("error", <<>>))
    /\ Finished => visited = totalKeywords

(* a finished run in which a task timed out and keywords after it were polled *)
C5_Witness ==
    /\ Finished
    /\ \E t \in DOMAIN getLog :
          /\ endpoint[t].kind = "never"
          /\ getLog[t].outcome = "error"
          /\ \E u \in DOMAIN getLog : u > t /\ getLog[u].outcome = "completed"

(* C9: whatever landing-results.json holds when Landing starts, the run does not *)
(* fail, and when it has finished every keyword of the Takeoff output has an     *)
(* entry in the written result.                                                  *)
C9_CheckpointTolerance ==
    /\ lastRun # "failed"
    /\ Finished =>
          /\ landingFile.kind = "snapshot"
          /\ \A p \in KeywordPlaces(takeOffData) : HasEntry(landingFile.val, takeOffData, p)

-----------------------------------------------------------------------------
(* Takeoff: takeoff() and buildTakeOff() of buildTakeOff.js *)

MaxTasks == 3
MaxLaunches == 3

RECURSIVE Distinct(_)
Distinct(list) ==
    IF list = <<>> THEN <<>>
    ELSE LET front == Distinct(SubSeq(list, 1, Len(list) - 1))
             last == list[Len(list)]
         IN IF \E j \in 1..Len(front) : front[j] = last THEN front ELSE Append(front, last)

(* Step 3: processedItem.keywords[keyword] = { [keyword]: [], task_id: "" }, one *)
(* property per distinct keyword, in the order of first insertion                *)
InitKeywords(keywords) ==
    [j \in 1..Len(Distinct(keywords)) |->
        [keyword |-> Distinct(keywords)[j], task_id |-> NoTask, status |-> "none",
         error_description |-> FALSE]]

KeyIndex(records, keyword) == CHOOSE j \in 1..Len(records) : records[j].keyword = keyword

(* what task_post may answer: a task with an id, a task without id, or an error *)
(* (network error, non-success status, a body without tasks)                    *)
Responses == {"ok", "noid", "fail"}

(* Step 4, after one axios.post: the record of the keyword *)
Submitted(record, response, id) ==
    IF response = "fail"
    THEN [record EXCEPT !.status = "error", !.error_description = TRUE]
    ELSE [record EXCEPT !.task_id = IF response = "ok" THEN id ELSE NoTask,
                        !.status = "submitted"]

(* data_for_seo.json, read when the program starts *)
Credentials == [kind |-> "config", Authorization |-> "Basic bG9naW46cGFzcw"]

(* what buildTakeOff(dataForSeoConfig) gets as its one parameter: buildTakeOff.js  *)
(* calls buildTakeOff(dataForSeoConfig), the governor's takeoff() calls            *)
(* buildTakeOff(preFlight, dataForSeoConfig)                                       *)
BuildTakeOffArgument(program) ==
    IF program = "governor_takeoff" THEN [kind |-> "preflight"] ELSE Credentials

(* headers.Authorization of a task_post: dataForSeoConfig.Authorization; the      *)
(* Preflight output has its locations as properties and no Authorization          *)
AuthorizationSent(program) ==
    LET dataForSeoConfig == BuildTakeOffArgument(program)
    IN IF dataForSeoConfig.kind = "config" THEN dataForSeoConfig.Authorization ELSE Undefined

(* takeoff(): if (!fs.existsSync(pre-flight-output.json)) return; else buildTakeOff *)
TakeoffEntry(file) == IF file.kind = "absent" THEN "idle" ELSE "t_load"

(* node buildTakeOff.js: takeoff() up to the call of buildTakeOff *)
TakeoffStart ==
    /\ StartProgram("takeoff")
    /\ pc' = TakeoffEntry(preflightFile)
    /\ lastRun' = IF pc' = "idle" THEN "exit" ELSE "running"

(* buildTakeOff: the Preflight output is read; an exception ends takeoff() in its catch *)
TakeoffLoad ==
    /\ pc = "t_load"
    /\ IF preflightFile.kind # "json"
          THEN /\ pc' = "idle"
               /\ lastRun' = "failed"
               /\ UNCHANGED preFlight
          ELSE /\ preFlight' = preflightFile.val
               /\ pc' = "t_group"
               /\ UNCHANGED lastRun
    /\ phaseLog' = Append(phaseLog, "takeoff")
    /\ UNCHANGED <<inputVars, preflightFile, takeOffObject, processedItem, tcur, nextTaskId,
                   postLog, takeoffFile, landingFile, endpoint, landingVars,
                   getLog, visited, saves, sinceSave, loaded, file0, launch>>

(* for (const [location, items] of Object.entries(preFlight)) *)
TakeoffGroup ==
    /\ pc = "t_group"
    /\ IF tcur.g < Len(preFlight)
          THEN /\ tcur' = [NoTcur EXCEPT !.g = tcur.g + 1]
               /\ takeOffObject' = Append(takeOffObject,
                                          [location |-> preFlight[tcur.g + 1].location,
                                           items |-> <<>>])
               /\ pc' = "t_item"
          ELSE /\ pc' = "t_write"
               /\ UNCHANGED <<tcur, takeOffObject>>
    /\ UNCHANGED <<inputVars, preflightFile, preFlight, processedItem, nextTaskId, postLog,
                   phaseLog, takeoffFile, landingFile, endpoint, landingVars, historyVars>>

(* for (const item of items): processedItem and Step 3 *)
TakeoffItem ==
    /\ pc = "t_item"
    /\ IF tcur.i < Len(preFlight[tcur.g].items)
          THEN LET item == preFlight[tcur.g].items[tcur.i + 1]
               IN /\ tcur' = [tcur EXCEPT !.i = tcur.i + 1, !.k = 0]
                  /\ processedItem' = [item EXCEPT !.keywords = InitKeywords(item.keywords)]
                  /\ pc' = "t_post"
          ELSE /\ pc' = "t_group"
               /\ UNCHANGED <<tcur, processedItem>>
    /\ UNCHANGED <<inputVars, preflightFile, preFlight, takeOffObject, nextTaskId, postLog,
                   phaseLog, takeoffFile, landingFile, endpoint, landingVars, historyVars>>

(* the output file rewritten whenever an item is pushed *)
TakeoffPostSaving ==
    /\ pc = "t_post"
    /\ IF tcur.k < Len(preFlight[tcur.g].items[tcur.i].keywords)
          THEN \E response \in Responses :
                LET keyword == preFlight[tcur.g].items[tcur.i].keywords[tcur.k + 1]
                    j == KeyIndex(processedItem.keywords, keyword)
                    answer == IF response = "ok" /\ nextTaskId > MaxTasks THEN "fail" ELSE response
                IN /\ tcur' = [tcur EXCEPT !.k = tcur.k + 1]
                   /\ processedItem' = [processedItem EXCEPT !.keywords[j] =
                                            Submitted(@, answer, nextTaskId)]
                   /\ nextTaskId' = IF answer = "ok" THEN nextTaskId + 1 ELSE nextTaskId
                   /\ postLog' = Append(postLog,
                                    [g |-> tcur.g, i |-> tcur.i, keyword |-> keyword,
                                     id |-> IF answer = "ok" THEN nextTaskId ELSE NoTask,
                                     authorization |-> AuthorizationSent(launch.program)])
                   /\ UNCHANGED <<takeOffObject, pc, takeoffFile>>
          ELSE /\ takeOffObject' = [takeOffObject EXCEPT ![tcur.g].items = Append(@, processedItem)]
               /\ takeoffFile' = JsonFile(takeOffObject')
               /\ pc' = "t_item"
               /\ UNCHANGED <<tcur, processedItem, nextTaskId, postLog>>
    /\ UNCHANGED <<inputVars, preflightFile, preFlight, phaseLog, landingFile,
                   endpoint, landingVars, historyVars>>

(* Step 4: one axios.post for the next keyword of the list and the record of its *)
(* answer; after the last keyword the item is pushed to takeOffObject[location]  *)
TakeoffPost ==
    /\ pc = "t_post"
    /\ IF tcur.k < Len(preFlight[tcur.g].items[tcur.i].keywords)
          THEN \E response \in Responses :
                LET keyword == preFlight[tcur.g].items[tcur.i].keywords[tcur.k + 1]
                    j == KeyIndex(processedItem.keywords, keyword)
                    answer == IF response = "ok" /\ nextTaskId > MaxTasks THEN "fail" ELSE response
                IN /\ tcur' = [tcur EXCEPT !.k = tcur.k + 1]
                   /\ processedItem' = [processedItem EXCEPT !.keywords[j] =
                                            Submitted(@, answer, nextTaskId)]
                   /\ nextTaskId' = IF answer = "ok" THEN nextTaskId + 1 ELSE nextTaskId
                   /\ postLog' = Append(postLog,
                                    [g |-> tcur.g, i |-> tcur.i, keyword |-> keyword,
                                     id |-> IF answer = "ok" THEN nextTaskId ELSE NoTask,
                                     authorization |-> AuthorizationSent(launch.program)])
                   /\ UNCHANGED <<takeOffObject, pc>>
          ELSE /\ takeOffObject' = [takeOffObject EXCEPT ![tcur.g].items = Append(@, processedItem)]
               /\ pc' = "t_item"
               /\ UNCHANGED <<tcur, processedItem, nextTaskId, postLog>>
    /\ UNCHANGED <<inputVars, preflightFile, preFlight, phaseLog, takeoffFile, landingFile,
                   endpoint, landingVars, historyVars>>

(* takeoff(): fs.writeFileSync of what buildTakeOff returned *)
TakeoffWrite ==
    /\ pc = "t_write"
    /\ takeoffFile' = JsonFile(takeOffObject)
    /\ pc' = "idle"
    /\ lastRun' = "done"
    /\ UNCHANGED <<inputVars, preflightFile, takeoffVars, nextTaskId, postLog, phaseLog,
                   landingFile, endpoint, landingVars, getLog, visited, saves, sinceSave,
                   loaded, file0, launch>>

-----------------------------------------------------------------------------
(* Preflight and the governor: preflight() of buildPreflight.js and of       *)
(* governor.js, whose last statement calls preflight() and nothing else      *)

(* node buildPreflight.js *)
PreflightStart ==
    /\ StartProgram("preflight")
    /\ pc' = "p_preflight"
    /\ lastRun' = "running"

(* node governor.js *)
GovernorStart ==
    /\ StartProgram("governor")
    /\ pc' = "p_preflight"
    /\ lastRun' = "running"

(* preflight(): buildPreflight and the write of pre-flight-output.json, or the *)
(* catch of what buildPreflight raised; the program then ends                 *)
PreflightRun ==
    /\ pc = "p_preflight"
    /\ IF buildPreflightThrows(rankingPages, serviceLocationData, placeholders)
          THEN /\ lastRun' = "failed"
               /\ UNCHANGED preflightFile
          ELSE /\ preflightFile' = JsonFile(buildPreflight(rankingPages, serviceLocationData,
                                                           placeholders))
               /\ lastRun' = "done"
    /\ phaseLog' = Append(phaseLog, "preflight")
    /\ pc' = "idle"
    /\ UNCHANGED <<inputVars, takeoffVars, nextTaskId, postLog, takeoffFile, landingFile,
                   endpoint, landingVars, getLog, visited, saves, sinceSave, loaded, file0,
                   launch>>

UpstreamPcs == {"p_preflight", "t_load", "t_group", "t_item", "t_post", "t_write"}

(* the process is killed; killed inside writeFileSync it may leave a truncated file *)
CrashUpstream ==
    /\ pc \in UpstreamPcs
    /\ pc' = "idle"
    /\ lastRun' = "crashed"
    /\ ResetTakeoff
    /\ \E truncated \in {b \in BOOLEAN : b => pc \in {"p_preflight", "t_write"}} :
          /\ preflightFile' = IF truncated /\ pc = "p_preflight" THEN Garbage ELSE preflightFile
          /\ takeoffFile' = IF truncated /\ pc = "t_write" THEN Garbage ELSE takeoffFile
    /\ UNCHANGED <<inputVars, nextTaskId, postLog, phaseLog, landingFile, endpoint, landingVars,
                   getLog, visited, saves, sinceSave, loaded, file0, launch>>

-----------------------------------------------------------------------------
(* The pipeline: the three programs and the governor, started by the user in *)
(* any order on the input tables of one deployment.                          *)

RowGarland == [location |-> "Garland", service |-> "wildlife removal", intended_url |-> "u1"]
RowPlano == [location |-> "Plano", service |-> "bat removal", intended_url |-> "u2"]

RowLists == {<<RowGarland>>, <<RowGarland, RowPlano>>}
KeywordLists == {<<"wildlife removal">>, <<"wildlife removal", "wildlife removal">>}
TemplateNear == <<"{keyword}", " near ", "{location}">>
TemplateBrand == <<"{Keyword}", " ", "{brand}">>
PlaceholderLists == {<<>>, <<TemplateNear>>, <<TemplateNear, TemplateBrand>>}

CityData(keyword_list) ==
    [brand |-> "AAAC",
     locations |-> <<[name |-> "Garland", geo_coordinate |-> "32.91,-96.63"]>>,
     services |-> <<[name |-> "wildlife removal", keyword_list |-> keyword_list]>>]

Init ==
    /\ \E rows \in RowLists : rankingPages = <<[city |-> "Dallas", rows |-> rows]>>
    /\ \E list \in KeywordLists : serviceLocationData = [c \in {"Dallas"} |-> CityData(list)]
    /\ placeholders \in PlaceholderLists
    /\ preflightFile = Absent
    /\ takeoffFile = Absent
    /\ landingFile \in {Absent, Garbage}
    /\ file0 = landingFile
    /\ nextTaskId = 1
    /\ launches = 0
    /\ InitSheetIdle
    /\ endpoint = [t \in 1..MaxTasks |-> Ready(t)]
    /\ InitUpstreamIdle
    /\ InitIdle
    /\ InitHistory

(* the user starts a program, MaxLaunches times at most *)
User(A) == launches < MaxLaunches /\ launches' = launches + 1 /\ A /\ UNCHANGED sheetVars

Next ==
    \/ User(PreflightStart)
    \/ User(GovernorStart)
    \/ User(TakeoffStart)
    \/ User(LandingStart)
    \/ Step(PreflightRun)
    \/ Step(TakeoffLoad)
    \/ Step(TakeoffGroup)
    \/ Step(TakeoffItem)
    \/ Step(TakeoffPost)
    \/ Step(TakeoffWrite)
    \/ Step(CrashUpstream)
    \/ Step(LandLoad)
    \/ Step(LandGroup)
    \/ Step(LandItem)
    \/ Step(LandKeyword)
    \/ Step(Poll)
    \/ Step(SaveCheckpoint)
    \/ Step(LandingWrite)
    \/ Step(CrashLanding)

Spec == Init /\ [][Next]_vars

-----------------------------------------------------------------------------
(* Properties of Takeoff and of the pipeline *)

TakeoffDone == launch.program = "takeoff" /\ pc = "idle" /\ lastRun = "done"

(* the keyword entries of a Preflight output, over all items *)
KeywordEntries(data) ==
    SumSeq([g \in 1..Len(data) |->
              SumSeq([i \in 1..Len(data[g].items) |-> Len(data[g].items[i].keywords)])])

(* the record takeoff-output.json holds for a keyword of item i of group g *)
RecordOf(g, i, keyword) ==
    LET records == takeoffFile.val[g].items[i].keywords
    IN records[KeyIndex(records, keyword)]

(* C6: when Takeoff has finished, one task_post call was made per keyword entry of *)
(* the Preflight output, and every call that returned a task id left its keyword   *)
(* with status submitted and that id in takeoff-output.json, whatever the other    *)
(* calls answered.                                                                 *)
C6_SubmissionIsolation ==
    TakeoffDone =>
        /\ Len(postLog) = KeywordEntries(launch.preflight.val)
        /\ \A n \in 1..Len(postLog) :
              postLog[n].id # NoTask =>
                  /\ RecordOf(postLog[n].g, postLog[n].i, postLog[n].keyword).status = "submitted"
                  /\ RecordOf(postLog[n].g, postLog[n].i, postLog[n].keyword).task_id = postLog[n].id

(* C7: in every takeoff-output.json a finished Takeoff wrote, a keyword record has *)
(* status submitted exactly when it carries a task id.                             *)
C7_SubmittedTaskInvariant ==
    TakeoffDone =>
        \A g \in 1..Len(takeoffFile.val) : \A i \in 1..Len(takeoffFile.val[g].items) :
            \A j \in 1..Len(takeoffFile.val[g].items[i].keywords) :
                LET record == takeoffFile.val[g].items[i].keywords[j]
                IN (record.status = "submitted") <=> (record.task_id # NoTask)

(* C8: a Takeoff started without pre-flight-output.json makes no task_post call and *)
(* leaves takeoff-output.json as it was; a Landing started without                  *)
(* takeoff-output.json makes no task_get call and leaves landing-results.json as it *)
(* was (absent stays absent); both have ended at once.                              *)
C8_FailFast ==
    /\ (launch.program = "takeoff" /\ launch.preflight.kind = "absent") =>
          /\ pc = "idle"
          /\ postLog = <<>>
          /\ takeoffFile = launch.takeoff
    /\ (launch.program = "landing" /\ launch.takeoff.kind = "absent") =>
          /\ pc = "idle"
          /\ getLog = EmptyMap
          /\ landingFile = launch.landing

(* a Landing started without takeoff-output.json next to an unreadable *)
(* landing-results.json has ended and the file is as it was            *)
C8_Witness ==
    /\ launch.program = "landing"
    /\ launch.takeoff.kind = "absent"
    /\ launch.landing = Garbage
    /\ lastRun = "exit"
    /\ landingFile = Garbage

(* C10: when a run of the governor has ended, Preflight, Takeoff and Landing have *)
(* run in that order and landing-results.json holds the results.                  *)
C10_GovernorSequencing ==
    (launch.program = "governor" /\ pc = "idle" /\ lastRun = "done") =>
        /\ phaseLog = <<"preflight", "takeoff", "landing">>
        /\ landingFile.kind = "snapshot"

-----------------------------------------------------------------------------
(* Preflight alone, on input tables drawn from small families: keyword lists *)
(* and template lists of every length up to a bound (repetitions included),  *)
(* rows with and without a geocode entry or a service definition, and a city *)
(* the service data does not know.                                           *)

MaxKeywords == 2
MaxTemplates == 2

SeqsUpTo(S, n) == UNION {[1..m -> S] : m \in 0..n}

RowPlanoWildlife == [location |-> "Plano", service |-> "wildlife removal", intended_url |-> "u3"]
PreflightRowLists ==
    {<<RowGarland>>, <<RowPlanoWildlife, RowGarland>>, <<RowGarland, RowPlano, RowPlanoWildlife>>}

(* ranking_pages.json: Dallas, with or without a city missing from the service data *)
PreflightPages(rows) ==
    {<<[city |-> "Dallas", rows |-> rows]>>,
     <<[city |-> "Austin", rows |-> <<RowGarland>>], [city |-> "Dallas", rows |-> rows]>>}

InitPreflight ==
    /\ \E rows \in PreflightRowLists : rankingPages \in PreflightPages(rows)
    /\ \E list \in SeqsUpTo({"wildlife removal", "raccoon removal"}, MaxKeywords) :
          serviceLocationData = [c \in {"Dallas"} |-> CityData(list)]
    /\ placeholders \in SeqsUpTo({TemplateNear, TemplateBrand}, MaxTemplates)
    /\ preflightFile = Absent
    /\ takeoffFile = Absent
    /\ landingFile = Absent
    /\ file0 = landingFile
    /\ nextTaskId = 1
    /\ launches = 0
    /\ InitSheetIdle
    /\ endpoint = [t \in 1..MaxTasks |-> Ready(t)]
    /\ InitUpstreamIdle
    /\ InitIdle
    /\ InitHistory

NextPreflight ==
    \/ Step(PreflightStart)
    \/ Step(GovernorStart)
    \/ Step(PreflightRun)
    \/ Step(CrashUpstream)

SpecPreflight == InitPreflight /\ [][NextPreflight]_vars

-----------------------------------------------------------------------------
(* Properties of Preflight *)

(* the pages of ranking_pages.json whose city the service data knows, in input order *)
KnownPages ==
    LET Known(page) == page.city \in DOMAIN serviceLocationData
    IN SelectSeq(rankingPages, Known)

PreflightWritten == preflightFile.kind = "json"

(* the service definition of a row: its index in the city's services, 0 when not found *)
ServiceOf(g, r) ==
    FirstNamed(serviceLocationData[KnownPages[g].city].services, KnownPages[g].rows[r].service)

KeywordListOf(g, r) ==
    serviceLocationData[KnownPages[g].city].services[ServiceOf(g, r)].keyword_list

(* the query of keyword m and template p for row r of group g *)
QueryOf(g, r, m, p) ==
    ExpandTemplate(placeholders[p], KeywordListOf(g, r)[m], KnownPages[g].rows[r].location,
                   serviceLocationData[KnownPages[g].city].brand)

(* C11: in pre-flight-output.json the keywords list of an item whose service  *)
(* definition is found has one entry per (keyword, template) pair: M x P      *)
(* entries for M keywords and P templates, repeated entries included.         *)
C11_ExpansionCardinality ==
    PreflightWritten =>
        \A g \in 1..Len(preflightFile.val) : \A r \in 1..Len(preflightFile.val[g].items) :
            ServiceOf(g, r) # 0 =>
                Len(preflightFile.val[g].items[r].keywords)
                    = Len(KeywordListOf(g, r)) * Len(placeholders)

(* an output with an item of two keywords (the same one twice) and two templates *)
C11_Witness ==
    /\ PreflightWritten
    /\ Len(placeholders) = 2
    /\ \E g \in 1..Len(preflightFile.val) : \E r \in 1..Len(preflightFile.val[g].items) :
          /\ ServiceOf(g, r) # 0
          /\ Len(KeywordListOf(g, r)) = 2
          /\ KeywordListOf(g, r)[1] = KeywordListOf(g, r)[2]
          /\ Len(preflightFile.val[g].items[r].keywords) = 4

(* C12, as stated: the keywords list is in template-major, keyword-minor order: *)
(* the queries of the first template for every keyword, then those of the      *)
(* second template, and so on.                                                 *)
C12_TemplateMajorOrder ==
    PreflightWritten =>
        \A g \in 1..Len(preflightFile.val) : \A r \in 1..Len(preflightFile.val[g].items) :
            ServiceOf(g, r) # 0 =>
                LET M == Len(KeywordListOf(g, r))
                    keywords == preflightFile.val[g].items[r].keywords
                IN \A m \in 1..M : \A p \in 1..Len(placeholders) :
                      /\ (p - 1) * M + m \in DOMAIN keywords
                      /\ keywords[(p - 1) * M + m] = QueryOf(g, r, m, p)

(* C12, amended: the keywords list is in keyword-major, template-minor order:  *)
(* the queries of the first keyword for every template (in template order),    *)
(* then those of the second keyword, and so on.                                *)
C12_KeywordMajorOrder ==
    PreflightWritten =>
        \A g \in 1..Len(preflightFile.val) : \A r \in 1..Len(preflightFile.val[g].items) :
            ServiceOf(g, r) # 0 =>
                LET P == Len(placeholders)
                    keywords == preflightFile.val[g].items[r].keywords
                IN \A m \in 1..Len(KeywordListOf(g, r)) : \A p \in 1..P :
                      /\ (m - 1) * P + p \in DOMAIN keywords
                      /\ keywords[(m - 1) * P + p] = QueryOf(g, r, m, p)

(* an output with an item of two different keywords and two different templates *)
C12_Witness ==
    /\ PreflightWritten
    /\ Len(placeholders) = 2
    /\ placeholders[1] # placeholders[2]
    /\ \E g \in 1..Len(preflightFile.val) : \E r \in 1..Len(preflightFile.val[g].items) :
          /\ ServiceOf(g, r) # 0
          /\ Len(KeywordListOf(g, r)) = 2
          /\ KeywordListOf(g, r)[1] # KeywordListOf(g, r)[2]
          /\ preflightFile.val[g].items[r].keywords[2] = QueryOf(g, r, 1, 2)

(* C13: pre-flight-output.json has one group per city of ranking_pages.json that *)
(* the service data knows, in input order, and in it one item per row, in row    *)
(* order, with the row's location and service; an item whose location has no     *)
(* geocode entry of that name is there with geo_coordinate null.                 *)
C13_DegradeNotDrop ==
    PreflightWritten =>
        /\ Len(preflightFile.val) = Len(KnownPages)
        /\ \A g \in 1..Len(KnownPages) :
              /\ preflightFile.val[g].location = KnownPages[g].city
              /\ Len(preflightFile.val[g].items) = Len(KnownPages[g].rows)
              /\ \A r \in 1..Len(KnownPages[g].rows) :
                    LET row == KnownPages[g].rows[r]
                        item == preflightFile.val[g].items[r]
                        locations == serviceLocationData[KnownPages[g].city].locations
                    IN /\ item.location = row.location
                       /\ item.service = row.service
                       /\ (\A l \in 1..Len(locations) : locations[l].name # row.location)
                              => item.geo_coordinate = NoGeo

(* an output with an item without geocode entry before one with, and a skipped city *)
C13_Witness ==
    /\ PreflightWritten
    /\ Len(rankingPages) > Len(KnownPages)
    /\ \E g \in 1..Len(preflightFile.val) :
          /\ Len(preflightFile.val[g].items) >= 2
          /\ preflightFile.val[g].items[1].geo_coordinate = NoGeo
          /\ preflightFile.val[g].items[2].geo_coordinate # NoGeo

-----------------------------------------------------------------------------
(* Landing of one submitted keyword whose task_get answer is drawn from a    *)
(* family of payloads: up to MaxItems items of every kind, in one page, in   *)
(* two pages split at every place, or behind a page without items.           *)

MaxItems == 3

ExtractItems ==
    {Item("organic", 3, UrlOurs), Item("organic", 1, UrlOurs2), Item("organic", 2, UrlOther),
     Item("paid", 1, UrlOurs), Item("featured", 2, UrlOurs2), Item("organic", 0, UrlOurs),
     Item("organic", 4, <<>>)}

SplitPayloads(items) ==
    {<<Page(items)>>, <<PageWithoutItems, Page(items)>>}
        \cup {<<Page(SubSeq(items, 1, k)), Page(SubSeq(items, k + 1, Len(items)))>> :
                 k \in 1..(Len(items) - 1)}

InitExtract ==
    /\ takeoffFile = JsonFile(Scenario(1, "single", 0, "never"))
    /\ \E items \in SeqsUpTo(ExtractItems, MaxItems) : \E payload \in SplitPayloads(items) :
          endpoint = [t \in 1..1 |-> [kind |-> "ready", result |-> payload]]
    /\ landingFile = Absent
    /\ file0 = landingFile
    /\ InitIdle
    /\ InitHistory
    /\ InitUpstreamIdle
    /\ rankingPages = <<>>
    /\ serviceLocationData = EmptyMap
    /\ placeholders = <<>>
    /\ preflightFile = Absent
    /\ nextTaskId = 1
    /\ launches = 0
    /\ InitSheetIdle

SpecExtract == InitExtract /\ [][NextLanding]_vars

-----------------------------------------------------------------------------
(* Properties of the extraction of rankings *)

(* the items of a payload, page after page *)
RECURSIVE PayloadItems(_)
PayloadItems(serpResults) ==
    IF serpResults = <<>> THEN <<>>
    ELSE Head(serpResults).items \o PayloadItems(Tail(serpResults))

(* the payload task_get returns for the keyword, and the keyword's entry in the results *)
ExtractPayload == endpoint[1].result
ExtractHasEntry == HasEntry(results.groups, takeOffData, <<1, 1, 1>>)
ExtractEntry == EntryAt(results.groups, takeOffData, <<1, 1, 1>>)

(* C14: every entry of the extracted rankings is the rank and URL of an item of *)
(* the payload whose type is organic: an item of another type (paid, featured)  *)
(* never gets in, whatever its rank and URL.                                    *)
C14_OrganicOnly ==
    (Running /\ ExtractHasEntry) =>
        \A n \in 1..Len(ExtractEntry.rankings) :
            \E j \in 1..Len(PayloadItems(ExtractPayload)) :
                /\ PayloadItems(ExtractPayload)[j].type = "organic"
                /\ PayloadItems(ExtractPayload)[j].rank_group = ExtractEntry.rankings[n].rank
                /\ PayloadItems(ExtractPayload)[j].url = ExtractEntry.rankings[n].url

(* a payload with a paid item of our domain with a rank, next to a kept organic item *)
C14_Witness ==
    /\ Finished
    /\ ExtractHasEntry
    /\ Len(ExtractEntry.rankings) = 1
    /\ \E j \in 1..Len(PayloadItems(ExtractPayload)) :
          PayloadItems(ExtractPayload)[j] = Item("paid", 1, UrlOurs)

(* the items the rule keeps: organic, with a positive rank_group and a URL that *)
(* contains the domain                                                          *)
Kept(it) ==
    /\ it.type = "organic"
    /\ it.rank_group > 0
    /\ it.url # <<>>
    /\ Includes(it.url, topDomain)

ExpectedRankings(serpResults) ==
    LET kept == SelectSeq(PayloadItems(serpResults), Kept)
    IN [n \in 1..Len(kept) |-> [rank |-> kept[n].rank_group, url |-> kept[n].url]]

(* C15: once the task of a submitted keyword has returned its pages, the keyword *)
(* is completed and its rankings are, page after page and item after item, the   *)
(* rank_group and URL of the organic items with a positive rank whose URL        *)
(* contains the domain; [] when there is none.                                   *)
C15_RankingExtraction ==
    (Running /\ getLog[1].outcome # "none") =>
        /\ ExtractHasEntry
        /\ ExtractEntry = Entry("completed", ExpectedRankings(ExtractPayload))

(* a finished run over two pages with a kept item in each, in page order *)
C15_Witness ==
    /\ Finished
    /\ Len(ExtractPayload) = 2
    /\ ExtractHasEntry
    /\ Len(ExtractEntry.rankings) = 2
    /\ ExtractEntry.rankings[1].rank = 3
    /\ ExtractEntry.rankings[2].rank = 1
    /\ ExtractPayload[1].items # <<>>
    /\ ExtractPayload[2].items # <<>>


-----------------------------------------------------------------------------
(* The Google Sheets scripts: google-apps-script.js keeps one Task ID / Rank / Date
   column group per check ("history"); the Universal Desktop script keeps the task
   list in Script Properties and overwrites two fixed columns ("desktop"). *)

MaxRows == 2
MaxHandlers == 2
MaxTicks == 1
MaxFaults == 1

maxAge == 30
SleepMinutes == 5
firstRowRead == 2

Variants == {"history", "desktop"}

(* one data row of the tracked sheet; an empty string or tuple is an empty cell *)
SheetRow(office, keyword, geo, primeUrl) ==
    [office |-> office, service |-> "wildlife removal", keyword |-> keyword, geo |-> geo,
     prime_url |-> primeUrl]

RowDallas == SheetRow("Dallas", "wildlife removal garland", "32.91,-96.63", UrlOurs)
RowAustin == SheetRow("Austin", "wildlife removal austin", "30.26,-97.74", UrlOurs2)
RowDallas2 == SheetRow("Dallas", "raccoon removal garland", "32.91,-96.63", UrlOurs2)
RowBlank == SheetRow("Dallas", "wildlife removal plano", "", UrlOurs)
RowKinds == <<RowDallas, RowAustin, RowDallas2, RowBlank>>

(* the sheets of the model: the first rows of two layouts *)
SheetLayout(shift, n) == [i \in 1..n |-> RowKinds[((i - 1 + shift) % Len(RowKinds)) + 1]]
SheetLists == {SheetLayout(shift, n) : shift \in {0, 3}, n \in 1..MaxRows}

(* a cell of a rank column: empty, a number, or the text 'Not Found' *)
EmptyCell == [text |-> "", rank |-> 0]
NotFoundCell == [text |-> "Not Found", rank |-> 0]
RankCell(n) == [text |-> "", rank |-> n]
NotFoundUrl == <<"Not Found">>

(* `value || 'Not Found'` for a rank and for a URL *)
RankOrNotFound(newRank) == IF newRank = 0 THEN NotFoundCell ELSE RankCell(newRank)
UrlOrNotFound(rankingUrl) == IF rankingUrl = <<>> THEN NotFoundUrl ELSE rankingUrl

(* buildPreflightFromSheet: the `continue` of an incomplete row *)
Incomplete(row) ==
    \/ row.office = ""
    \/ row.service = ""
    \/ variant = "desktop" /\ row.keyword = ""
    \/ row.geo = ""
    \/ row.prime_url = <<>>

(* the keys of `output` in insertion order *)
RECURSIVE OfficesFrom(_, _, _)
OfficesFrom(rows, i, seen) ==
    IF i > Len(rows) THEN seen
    ELSE IF Incomplete(rows[i]) \/ \E n \in DOMAIN seen : seen[n] = rows[i].office
         THEN OfficesFrom(rows, i + 1, seen)
         ELSE OfficesFrom(rows, i + 1, Append(seen, rows[i].office))

SheetItem(rows, i) ==
    [rowIndex |-> i, office |-> rows[i].office,
     keyword |-> IF variant = "desktop" THEN rows[i].keyword ELSE rows[i].service,
     geo |-> rows[i].geo, prime_url |-> rows[i].prime_url]

RECURSIVE OfficeItems(_, _, _)
OfficeItems(rows, office, i) ==
    IF i > Len(rows) THEN <<>>
    ELSE (IF ~Incomplete(rows[i]) /\ rows[i].office = office THEN <<SheetItem(rows, i)>> ELSE <<>>)
            \o OfficeItems(rows, office, i + 1)

(* buildPreflightFromSheet: data[0] is the header row, so sheet row i is data[i];
   the result is one group per office *)
buildPreflightFromSheet(rows) ==
    LET offices == OfficesFrom(rows, 1, <<>>)
    IN [g \in DOMAIN offices |-> [office |-> offices[g], items |-> OfficeItems(rows, offices[g], 1)]]

(* the items in the order the two `for ... of Object.entries` loops visit them *)
RECURSIVE Flat(_)
Flat(groups) == IF groups = <<>> THEN <<>> ELSE Head(groups).items \o Flat(Tail(groups))

(* google-apps-script.js, extractRankingData: organic items whose url is the prime url *)
RECURSIVE PageRankingsExact(_, _)
PageRankingsExact(items, primeUrl) ==
    IF items = <<>> THEN <<>>
    ELSE LET it == Head(items)
             keep == /\ it.type = "organic"
                     /\ it.rank_group # 0
                     /\ it.url # <<>>
                     /\ it.url = primeUrl
         IN (IF keep THEN <<[rank |-> it.rank_group, url |-> it.url]>> ELSE <<>>)
                \o PageRankingsExact(Tail(items), primeUrl)

RECURSIVE extractRankingDataExact(_, _)
extractRankingDataExact(serpResults, primeUrl) ==
    IF serpResults = <<>> THEN <<>>
    ELSE (IF Head(serpResults).hasItems THEN PageRankingsExact(Head(serpResults).items, primeUrl)
          ELSE <<>>)
            \o extractRankingDataExact(Tail(serpResults), primeUrl)

(* extractRankingData of the installed script *)
SheetRankings(serpResults, primeUrl) ==
    IF variant = "desktop" THEN extractRankingData(serpResults)
    ELSE extractRankingDataExact(serpResults, primeUrl)

(* desktop writeResultsToSheet: rankings.reduce((best, current) =>
   current.rank < best.rank ? current : best) *)
RECURSIVE ReduceBestLast(_, _)
ReduceBestLast(best, rest) ==
    IF rest = <<>> THEN best
    ELSE ReduceBestLast(IF Head(rest).rank <= best.rank THEN Head(rest) ELSE best, Tail(rest))

RECURSIVE ReduceBest(_, _)
ReduceBest(best, rest) ==
    IF rest = <<>> THEN best
    ELSE ReduceBest(IF Head(rest).rank < best.rank THEN Head(rest) ELSE best, Tail(rest))

(* history writeResultsToSheet: Math.min(...rankings.map(r => r.rank)) *)
RECURSIVE MinRank(_)
MinRank(rankings) ==
    IF Len(rankings) = 1 THEN rankings[1].rank
    ELSE Min(rankings[1].rank, MinRank(Tail(rankings)))

(* the two cells writeResultsToSheet sets for one result; the history script has a
   date column where the desktop script has a URL column *)
WrittenCells(rankings) ==
    IF rankings = <<>> THEN [rank |-> NotFoundCell, url |-> NotFoundUrl]
    ELSE IF variant = "desktop"
         THEN LET bestRanking == ReduceBest(Head(rankings), Tail(rankings))
              IN [rank |-> RankOrNotFound(bestRanking.rank), url |-> UrlOrNotFound(bestRanking.url)]
         ELSE [rank |-> RankOrNotFound(MinRank(rankings)), url |-> <<>>]

-----------------------------------------------------------------------------
(* The Google Sheets scripts: state and steps *)

(* the payloads the modelled service returns to the scripts *)
SheetPayloads ==
    << <<Page(<<Item("organic", 5, UrlOurs), Item("organic", 2, UrlOurs2),
                Item("organic", 8, UrlOurs)>>)>>,
       <<Page(<<Item("organic", 3, UrlOurs2), Item("paid", 1, UrlOurs)>>),
         Page(<<Item("organic", 3, UrlOurs), Item("organic", 7, UrlOther)>>)>>,
       <<Page(<<Item("organic", 1, UrlOther)>>)>> >>

(* the answer of task_get for task n: one task in four is not ready *)
SheetAnswer(n) ==
    IF n % (Len(SheetPayloads) + 1) = Len(SheetPayloads) THEN Never
    ELSE [kind |-> "ready", result |-> SheetPayloads[(n % (Len(SheetPayloads) + 1)) + 1]]

SheetResponses == {"ok", "fail"}
TickMinutes == {maxAge, maxAge + 1}

(* what the call of the script has appended to the history so far *)
Event(op, row, id) ==
    [op |-> op, handler |-> script.handler, row |-> row, id |-> id, time |-> clock]

(* the id the service gives to the next task it creates *)
SheetNextId ==
    1 + Cardinality({n \in DOMAIN sheetLog : sheetLog[n].op = "post" /\ sheetLog[n].id # NoTask})

(* a call of a service (the spreadsheet, the API) that may fail: failed tells whether
   it does *)
MayFail(failed) ==
    /\ failed => budget.faults < MaxFaults
    /\ budget' = [budget EXCEPT !.faults = IF failed THEN @ + 1 ELSE @]

(* a step of a script: the Node pipeline is not running *)
Sheet(A) == A /\ UNCHANGED <<pipelineVars, endpoint>>

(* a menu item or the time-driven trigger starts a function *)
StartFunction(h, first) ==
    /\ script.pc = "idle"
    /\ budget.handlers < MaxHandlers
    /\ budget' = [budget EXCEPT !.handlers = @ + 1]
    /\ script' = [NoScript EXCEPT !.pc = first, !.handler = h, !.outcome = "running"]
    /\ UNCHANGED <<variant, apiKey, sheetRows, taskColumns, rankCells, props, clock, audit, sheetLog>>

submitRankingJobs == StartFunction("submit", "s_config")

getRankingResults == StartFunction("get", "g_read")

dailyRankingCheck == variant = "desktop" /\ StartFunction("daily", "s_config")

(* the catch block of the running function: an alert for a menu item, console.error
   for dailyRankingCheck; the function returns *)
Caught == IF script.handler = "daily" THEN "logged" ELSE "alert"

(* getSheetData, buildPreflightFromSheet, and getDataForSEOConfig at the top of
   submitJobsToDataForSEO *)
SubmitConfig ==
    /\ script.pc = "s_config"
    /\ LET items == Flat(buildPreflightFromSheet(sheetRows))
       IN IF ~apiKey
          THEN /\ script' = [script EXCEPT !.pc = "idle", !.outcome = Caught]
               /\ sheetLog' = Append(sheetLog, Event("thrown", 0, NoTask))
          ELSE /\ script' = [script EXCEPT !.items = items, !.k = 1,
                                           !.pc = IF items = <<>> THEN "s_write" ELSE "s_log"]
               /\ UNCHANGED sheetLog
    /\ UNCHANGED <<variant, apiKey, sheetRows, taskColumns, rankCells, props, clock, audit, budget>>

(* logSubmitRequest(prime_url, postData[0]): appendRow on the submit_requests tab; a
   failure is caught inside and only printed *)
logSubmitRequest ==
    /\ script.pc = "s_log"
    /\ LET item == script.items[script.k]
       IN /\ \E appended \in BOOLEAN :
                /\ MayFail(~appended)
                /\ audit' = IF appended
                            THEN Append(audit, [prime_url |-> item.prime_url,
                                                keyword |-> item.keyword,
                                                location_coordinate |-> item.geo])
                            ELSE audit
          /\ sheetLog' = Append(sheetLog, Event("attempt", item.rowIndex, NoTask))
    /\ script' = [script EXCEPT !.pc = "s_post"]
    /\ UNCHANGED <<variant, apiKey, sheetRows, taskColumns, rankCells, props, clock>>

(* UrlFetchApp.fetch of task_post and the push of the outcome *)
SheetTaskPost ==
    /\ script.pc = "s_post"
    /\ \E response \in SheetResponses :
          LET item == script.items[script.k]
              answer == IF response = "ok" /\ SheetNextId > MaxTasks THEN "fail" ELSE response
              taskId == IF answer = "ok" THEN SheetNextId ELSE NoTask
          IN /\ MayFail(response = "fail")
             /\ script' = [script EXCEPT
                              !.taskResults = Append(@, [rowIndex |-> item.rowIndex,
                                                         prime_url |-> item.prime_url,
                                                         task_id |-> taskId,
                                                         status |-> IF answer = "ok" THEN "submitted"
                                                                    ELSE "error"]),
                              !.k = @ + 1,
                              !.pc = IF script.k < Len(script.items) THEN "s_log" ELSE "s_write"]
             /\ sheetLog' = Append(sheetLog, Event("post", item.rowIndex, taskId))
    /\ UNCHANGED <<variant, apiKey, sheetRows, taskColumns, rankCells, props, clock, audit>>

(* history writeTaskIdsToSheet: the new column group *)
TaskIdColumn(taskResults) ==
    [i \in DOMAIN sheetRows |->
        IF \E n \in DOMAIN taskResults : taskResults[n].rowIndex = i /\ taskResults[n].task_id # NoTask
        THEN (CHOOSE r \in {taskResults[n] : n \in DOMAIN taskResults} :
                 r.rowIndex = i /\ r.task_id # NoTask).task_id
        ELSE NoTask]

(* storeTaskIds numbering the stored tasks by their place in the list *)
StoredTasksByPosition(taskResults) ==
    LET kept == SelectSeq(taskResults, LAMBDA item : item.task_id # NoTask)
    IN [n \in DOMAIN kept |-> [taskId |-> kept[n].task_id, rowIndex |-> n,
                               prime_url |-> kept[n].prime_url, column |-> 0]]

(* desktop storeTaskIds: the list that is stringified *)
RECURSIVE StoredTasks(_)
StoredTasks(taskResults) ==
    IF taskResults = <<>> THEN <<>>
    ELSE LET item == Head(taskResults)
         IN (IF item.task_id # NoTask /\ item.rowIndex # 0
             THEN <<[taskId |-> item.task_id, rowIndex |-> item.rowIndex,
                     prime_url |-> item.prime_url, column |-> 0]>>
             ELSE <<>>) \o StoredTasks(Tail(taskResults))

(* writeTaskIdsToSheet, and the return of the submit function *)
writeTaskIdsToSheet ==
    /\ script.pc = "s_write"
    /\ IF variant = "desktop"
       THEN /\ props' = [present |-> TRUE, tasks |-> StoredTasks(script.taskResults),
                         timestamp |-> clock]
            /\ UNCHANGED taskColumns
       ELSE /\ taskColumns' = Append(taskColumns,
                                     [taskIds |-> TaskIdColumn(script.taskResults),
                                      ranks |-> [i \in DOMAIN sheetRows |-> EmptyCell]])
            /\ UNCHANGED props
    /\ script' = [script EXCEPT !.pc = IF script.handler = "daily" THEN "d_sleep" ELSE "idle",
                                !.outcome = IF script.handler = "daily" THEN "running" ELSE "done"]
    /\ sheetLog' = Append(sheetLog, Event("submitted", 0, NoTask))
    /\ UNCHANGED <<variant, apiKey, sheetRows, rankCells, clock, audit, budget>>

(* dailyRankingCheck going on to the retrieval at once *)
DailySleepSkipped ==
    /\ script.pc = "d_sleep"
    /\ script' = [script EXCEPT !.pc = "g_read"]
    /\ UNCHANGED <<variant, apiKey, sheetRows, taskColumns, rankCells, props, clock, audit, sheetLog,
                   budget>>

(* dailyRankingCheck: Utilities.sleep(5 * 60 * 1000), then getRankingResultsAutomated *)
DailySleep ==
    /\ script.pc = "d_sleep"
    /\ clock' = clock + SleepMinutes
    /\ script' = [script EXCEPT !.pc = "g_read"]
    /\ UNCHANGED <<variant, apiKey, sheetRows, taskColumns, rankCells, props, audit, sheetLog, budget>>

(* history getTaskIdsFromSheet: the rightmost Task ID column, read from data[2] on *)
RECURSIVE ColumnTasks(_, _, _)
ColumnTasks(columns, col, i) ==
    IF i > Len(sheetRows) THEN <<>>
    ELSE (IF columns[col].taskIds[i] # NoTask
          THEN <<[taskId |-> columns[col].taskIds[i], rowIndex |-> i,
                  prime_url |-> sheetRows[i].prime_url, column |-> col]>>
          ELSE <<>>) \o ColumnTasks(columns, col, i + 1)

getTaskIdsFromSheet(columns) ==
    IF columns = <<>> THEN <<>> ELSE ColumnTasks(columns, Len(columns), firstRowRead)

(* desktop getStoredTaskIds: what it returns, and whether it clears the store *)
TooOldInclusive(stored, now) == stored.present /\ now - stored.timestamp >= maxAge

TooOld(stored, now) == stored.present /\ now - stored.timestamp > maxAge

getStoredTaskIds(stored, now) ==
    IF ~stored.present \/ TooOld(stored, now) THEN <<>> ELSE stored.tasks

(* the first phase of Get Results, and getDataForSEOConfig at the top of
   fetchResultsFromDataForSEO *)
GetRead ==
    /\ script.pc = "g_read"
    /\ LET taskIds == IF variant = "desktop" THEN getStoredTaskIds(props, clock)
                      ELSE getTaskIdsFromSheet(taskColumns)
       IN /\ props' = IF variant = "desktop" /\ TooOld(props, clock) THEN NoProps ELSE props
          /\ sheetLog' = Append(sheetLog, Event("read", 0, NoTask))
          /\ script' = IF taskIds = <<>>
                       THEN [script EXCEPT !.pc = "idle", !.outcome = "nojobs"]
                       ELSE IF ~apiKey
                            THEN [script EXCEPT !.pc = "idle", !.outcome = Caught]
                            ELSE [script EXCEPT !.taskIds = taskIds, !.k = 1, !.pc = "g_fetch"]
    /\ UNCHANGED <<variant, apiKey, sheetRows, taskColumns, rankCells, clock, audit, budget>>

(* one UrlFetchApp.fetch of task_get and the push of its result *)
SheetFetch ==
    /\ script.pc = "g_fetch"
    /\ \E thrown \in BOOLEAN :
          LET task == script.taskIds[script.k]
              answer == endpoint[task.taskId]
              result == IF thrown THEN [status |-> "error", rankings |-> <<>>]
                        ELSE IF answer.kind = "ready" /\ answer.result # <<>>
                             THEN [status |-> "completed",
                                   rankings |-> SheetRankings(answer.result, task.prime_url)]
                             ELSE [status |-> "no_results", rankings |-> <<>>]
          IN /\ MayFail(thrown)
             /\ script' = [script EXCEPT
                              !.results = Append(@, [taskId |-> task.taskId,
                                                     rowIndex |-> task.rowIndex,
                                                     column |-> task.column,
                                                     status |-> result.status,
                                                     rankings |-> result.rankings]),
                              !.k = @ + 1,
                              !.pc = IF script.k < Len(script.taskIds) THEN "g_fetch"
                                     ELSE "g_write"]
    /\ sheetLog' = Append(sheetLog, Event("get", script.taskIds[script.k].rowIndex,
                                          script.taskIds[script.k].taskId))
    /\ UNCHANGED <<variant, apiKey, sheetRows, taskColumns, rankCells, props, clock, audit>>

(* the result writeResultsToSheet writes to sheet row i, if any *)
HasResult(res, i) == \E n \in DOMAIN res : res[n].rowIndex = i
ResultOf(res, i) == res[CHOOSE n \in DOMAIN res : res[n].rowIndex = i]

(* the stored list deleted only when every task of the run has completed *)
writeResultsKeepingUnfinished ==
    /\ script.pc = "g_write"
    /\ IF variant = "desktop"
       THEN /\ rankCells' = [i \in DOMAIN rankCells |->
                                IF HasResult(script.results, i)
                                THEN WrittenCells(ResultOf(script.results, i).rankings)
                                ELSE rankCells[i]]
            /\ props' = IF \A n \in DOMAIN script.results : script.results[n].status = "completed"
                        THEN NoProps ELSE props
            /\ UNCHANGED taskColumns
       ELSE /\ taskColumns' = [taskColumns EXCEPT ![script.results[1].column].ranks =
                                  [i \in DOMAIN sheetRows |->
                                      IF HasResult(script.results, i)
                                      THEN WrittenCells(ResultOf(script.results, i).rankings).rank
                                      ELSE @[i]]]
            /\ UNCHANGED <<rankCells, props>>
    /\ script' = [script EXCEPT !.pc = "idle", !.outcome = "done"]
    /\ UNCHANGED <<variant, apiKey, sheetRows, clock, audit, sheetLog, budget>>

(* writeResultsToSheet, then (desktop) clearStoredTaskIds, and the return *)
writeResultsToSheet ==
    /\ script.pc = "g_write"
    /\ IF variant = "desktop"
       THEN /\ rankCells' = [i \in DOMAIN rankCells |->
                                IF HasResult(script.results, i)
                                THEN WrittenCells(ResultOf(script.results, i).rankings)
                                ELSE rankCells[i]]
            /\ props' = NoProps
            /\ UNCHANGED taskColumns
       ELSE /\ taskColumns' = [taskColumns EXCEPT ![script.results[1].column].ranks =
                                  [i \in DOMAIN sheetRows |->
                                      IF HasResult(script.results, i)
                                      THEN WrittenCells(ResultOf(script.results, i).rankings).rank
                                      ELSE @[i]]]
            /\ UNCHANGED <<rankCells, props>>
    /\ script' = [script EXCEPT !.pc = "idle", !.outcome = "done"]
    /\ UNCHANGED <<variant, apiKey, sheetRows, clock, audit, sheetLog, budget>>

(* time passes while no function runs; only the age of the stored task list is ever
   read, so time is counted from the moment a list is stored *)
Tick ==
    /\ script.pc = "idle"
    /\ props.present
    /\ budget.ticks < MaxTicks
    /\ \E d \in TickMinutes : clock' = clock + d
    /\ budget' = [budget EXCEPT !.ticks = @ + 1]
    /\ UNCHANGED <<variant, apiKey, sheetRows, taskColumns, rankCells, props, audit, script, sheetLog>>

InitSheet ==
    /\ variant \in Variants
    /\ apiKey \in BOOLEAN
    /\ sheetRows \in SheetLists
    /\ taskColumns = <<>>
    /\ rankCells = [i \in DOMAIN sheetRows |-> [rank |-> EmptyCell, url |-> <<>>]]
    /\ props = NoProps
    /\ clock = 0
    /\ audit = <<>>
    /\ script = NoScript
    /\ sheetLog = <<>>
    /\ budget = [handlers |-> 0, ticks |-> 0, faults |-> 0]
    /\ \E shift \in 0..Len(SheetPayloads) : endpoint = [t \in 1..MaxTasks |-> SheetAnswer(t + shift)]
    /\ takeoffFile = Absent
    /\ landingFile = Absent
    /\ file0 = landingFile
    /\ InitIdle
    /\ InitHistory
    /\ InitUpstreamIdle
    /\ rankingPages = <<>>
    /\ serviceLocationData = EmptyMap
    /\ placeholders = <<>>
    /\ preflightFile = Absent
    /\ nextTaskId = 1
    /\ launches = 0

NextSheet ==
    \/ Sheet(submitRankingJobs)
    \/ Sheet(getRankingResults)
    \/ Sheet(dailyRankingCheck)
    \/ Sheet(SubmitConfig)
    \/ Sheet(logSubmitRequest)
    \/ Sheet(SheetTaskPost)
    \/ Sheet(writeTaskIdsToSheet)
    \/ Sheet(DailySleep)
    \/ Sheet(GetRead)
    \/ Sheet(SheetFetch)
    \/ Sheet(writeResultsToSheet)
    \/ Sheet(Tick)

SpecSheet == InitSheet /\ [][NextSheet]_vars

-----------------------------------------------------------------------------
(* Properties of the Google Sheets scripts *)

(* a Get Results run has written its results and returned; its results are still
   in script.results *)
ResultsWritten ==
    /\ script.pc = "idle"
    /\ script.outcome = "done"
    /\ script.handler \in {"get", "daily"}

(* the rank cell and the URL cell of sheet row i that the run wrote to *)
CellsOf(r) ==
    IF variant = "desktop" THEN rankCells[r.rowIndex]
    ELSE [rank |-> taskColumns[r.column].ranks[r.rowIndex], url |-> <<>>]

(* entry b is the first of the entries of least rank *)
FirstBest(rankings, b) ==
    /\ \A m \in DOMAIN rankings : rankings[b].rank <= rankings[m].rank
    /\ \A m \in 1..(b - 1) : rankings[m].rank > rankings[b].rank

(* C16: when a result has ranking entries, the rank written to the sheet is the rank
   of the first entry of least rank and the URL written (by the script that writes a
   URL) is that entry's URL; with no entries 'Not Found' is written. *)
C16_BestRankSelection ==
    ResultsWritten =>
        \A n \in DOMAIN script.results :
            LET r == script.results[n]
                cells == CellsOf(r)
            IN IF r.rankings = <<>>
               THEN /\ cells.rank = NotFoundCell
                    /\ variant = "desktop" => cells.url = NotFoundUrl
               ELSE \E b \in DOMAIN r.rankings :
                       /\ FirstBest(r.rankings, b)
                       /\ cells.rank = RankCell(r.rankings[b].rank)
                       /\ variant = "desktop" => cells.url = r.rankings[b].url

(* C16 witness: a run wrote a result whose least rank is shared by two entries with
   different URLs, and a result without entries *)
C16_Witness ==
    /\ ResultsWritten
    /\ variant = "desktop"
    /\ \E n \in DOMAIN script.results :
          LET rankings == script.results[n].rankings
          IN \E a, b \in DOMAIN rankings :
                /\ a < b
                /\ FirstBest(rankings, a)
                /\ rankings[b].rank = rankings[a].rank
                /\ rankings[b].url # rankings[a].url
                /\ rankCells[script.results[n].rowIndex].url = rankings[a].url
    /\ \E n \in DOMAIN script.results : script.results[n].rankings = <<>>

(* the submission attempts started so far: one per keyword of the loop of
   submitJobsToDataForSEO *)
AttemptsStarted == {n \in DOMAIN sheetLog : sheetLog[n].op = "attempt"}
PostsIssued == {n \in DOMAIN sheetLog : sheetLog[n].op = "post"}

(* C17: for every submission attempt one record holding the request payload is on
   the submit_requests tab before task_post is called: the tab has as many records
   as attempts were started, and never fewer records than calls were issued. *)
C17_AuditBeforeCall ==
    /\ Len(audit) = Cardinality(AttemptsStarted)
    /\ Len(audit) >= Cardinality(PostsIssued)

(* the time at which the task with this id was stored: the return of the submit
   function that created it *)
StoredAt(id) ==
    LET p == CHOOSE n \in DOMAIN sheetLog : sheetLog[n].op = "post" /\ sheetLog[n].id = id
        s == CHOOSE n \in DOMAIN sheetLog :
                 /\ n > p
                 /\ sheetLog[n].op = "submitted"
                 /\ \A m \in (p + 1)..(n - 1) : sheetLog[m].op # "submitted"
    IN sheetLog[s].time

(* the desktop script reads the stored task list in this step *)
ReadsStore == variant = "desktop" /\ script.pc = "g_read" /\ script'.pc # "g_read" /\ props.present

(* C18: getStoredTaskIds returns the stored list when it is at most 30 minutes old
   and otherwise deletes the list and its timestamp and returns nothing, so no task
   is fetched by a run that read the store more than 30 minutes after it was stored. *)
C18_StoredTaskExpiry ==
    /\ [][ReadsStore =>
            IF clock - props.timestamp <= maxAge
            THEN /\ props' = props
                 /\ props.tasks # <<>> /\ apiKey =>
                        script'.pc = "g_fetch" /\ script'.taskIds = props.tasks
            ELSE /\ props' = NoProps
                 /\ script'.pc = "idle"
                 /\ script'.taskIds = <<>>]_vars
    /\ [](variant = "desktop" =>
            \A n \in DOMAIN sheetLog :
                sheetLog[n].op = "get" => sheetLog[n].time - StoredAt(sheetLog[n].id) <= maxAge)

(* C18 witness: Get Results found a list of tasks stored 31 minutes earlier, deleted
   it and returned without a fetch *)
C18_Witness ==
    /\ variant = "desktop"
    /\ script.handler = "get"
    /\ script.outcome = "nojobs"
    /\ props = NoProps
    /\ \E n \in DOMAIN sheetLog :
          /\ sheetLog[n].op = "post"
          /\ sheetLog[n].id # NoTask
          /\ clock - StoredAt(sheetLog[n].id) = maxAge + 1
    /\ \A n \in DOMAIN sheetLog : sheetLog[n].op # "get"

(* the events of dailyRankingCheck *)
DailyEvents(op) == {n \in DOMAIN sheetLog : sheetLog[n].op = op /\ sheetLog[n].handler = "daily"}

(* C19: in dailyRankingCheck the retrieval starts only after the submission has
   returned and 5 minutes have passed since; when the submission throws, the
   invocation makes no retrieval, and the function logs the error and returns. *)
C19_DailyCheckOrdering ==
    /\ \A n \in DailyEvents("read") :
          /\ n > 1
          /\ sheetLog[n - 1].op = "submitted"
          /\ sheetLog[n - 1].handler = "daily"
          /\ sheetLog[n].time >= sheetLog[n - 1].time + SleepMinutes
    /\ \A n \in DailyEvents("get") : \E m \in DailyEvents("read") : m < n
    /\ \A n \in DailyEvents("thrown") :
          /\ n < Len(sheetLog) /\ sheetLog[n + 1].handler = "daily" =>
                sheetLog[n + 1].op \notin {"read", "get"}
          /\ n = Len(sheetLog) /\ script.handler = "daily" =>
                /\ script.pc \in {"idle", "s_config"}
                /\ script.pc = "idle" => script.outcome = "logged"

(* C19 witness: a daily check has submitted, slept, and fetched a result *)
C19_Witness ==
    /\ script.handler = "daily"
    /\ \E n \in DailyEvents("read") : sheetLog[n].time = sheetLog[n - 1].time + SleepMinutes
    /\ DailyEvents("get") # {}
    /\ ResultsWritten

(* Get Results of the history script has read the sheet *)
SheetRead ==
    /\ variant = "history"
    /\ script.handler = "get"
    /\ script.pc # "g_read"
    /\ taskColumns # <<>>

(* C20: after Submit Ranking Jobs, every data row that holds a task id in the newest
   Task ID column is returned by getTaskIdsFromSheet with that id and its row index,
   and gets a rank written when the run is done; the first data row included. *)
C20_TaskIdRoundTrip ==
    SheetRead =>
        \A i \in DOMAIN sheetRows :
            LET column == taskColumns[Len(taskColumns)]
            IN column.taskIds[i] # NoTask =>
                  /\ script.outcome # "nojobs"
                  /\ script.pc # "idle" \/ script.outcome = "done" =>
                        \E n \in DOMAIN script.taskIds :
                            /\ script.taskIds[n].taskId = column.taskIds[i]
                            /\ script.taskIds[n].rowIndex = i
                  /\ script.outcome = "done" => column.ranks[i] # EmptyCell

(* the task_post calls of the newest submission: those after the return of the one
   before it *)
LastSubmission ==
    LET returns == {n \in DOMAIN sheetLog : sheetLog[n].op = "submitted"}
        last == CHOOSE n \in returns : \A m \in returns : m <= n
        before == {n \in returns : n < last}
        from == IF before = {} THEN 0 ELSE CHOOSE n \in before : \A m \in before : m <= n
    IN {n \in (from + 1)..(last - 1) : sheetLog[n].op = "post"}

(* sheet row i was submitted with success in the newest submission; the id it got *)
RowSubmitted(i) == \E n \in LastSubmission : sheetLog[n].row = i /\ sheetLog[n].id # NoTask
RowTask(i) == sheetLog[CHOOSE n \in LastSubmission : sheetLog[n].row = i /\ sheetLog[n].id # NoTask].id

(* what Get Results has to write for the task: the best entry of its result when the
   fetch returned a result, 'Not Found' otherwise *)
CellsForTask(id) ==
    LET r == script.results[CHOOSE n \in DOMAIN script.results : script.results[n].taskId = id]
    IN IF r.status = "completed"
       THEN WrittenCells(extractRankingData(endpoint[id].result))
       ELSE [rank |-> NotFoundCell, url |-> NotFoundUrl]

(* the desktop script writes its results in this step *)
WritesResults == variant = "desktop" /\ script.pc = "g_write" /\ script'.pc = "idle"

(* C21: when the desktop Get Results writes, every sheet row that was accepted and
   submitted with success gets the rank and URL of its own task, and every other row
   (failed submission, incomplete row) is left as it was; incomplete rows are never
   submitted. *)
C21_RowAlignment ==
    /\ [][WritesResults =>
            \A i \in DOMAIN sheetRows :
                IF RowSubmitted(i)
                THEN /\ ~Incomplete(sheetRows[i])
                     /\ \E n \in DOMAIN script.results : script.results[n].taskId = RowTask(i)
                     /\ rankCells'[i] = CellsForTask(RowTask(i))
                ELSE rankCells'[i] = rankCells[i]]_vars
    /\ [](\A n \in DOMAIN sheetLog :
             sheetLog[n].op \in {"attempt", "post"} => ~Incomplete(sheetRows[sheetLog[n].row]))

(* C21 witness: Get Results wrote a rank to the second sheet row and left the first,
   which was incomplete or whose submission failed, empty *)
C21_Witness ==
    /\ ResultsWritten
    /\ variant = "desktop"
    /\ Len(sheetRows) > 1
    /\ ~RowSubmitted(1)
    /\ RowSubmitted(2)
    /\ rankCells[1] = [rank |-> EmptyCell, url |-> <<>>]
    /\ rankCells[2].rank.rank > 0
    /\ rankCells[2].url # NotFoundUrl

-----------------------------------------------------------------------------
(* Further properties of Landing *)

KeywordAt(p) == takeOffData[p[1]].items[p[2]].keywords[p[3]]
Pending(p) == KeywordAt(p).status = "submitted" /\ KeywordAt(p).task_id # NoTask

(* C22: when a Landing run that started without a checkpoint has finished, every
   keyword of the Takeoff output that is `submitted` with a task id has had at least
   one task_get call for its own task id, whatever the other items of its group. *)
C22_EveryPendingTaskPolled ==
    (Finished /\ loaded = FreshResults(takeOffData)) =>
        \A p \in KeywordPlaces(takeOffData) : Pending(p) => getLog[TaskAt(p)].calls >= 1

(* C23: when Landing has finished, a keyword of the Takeoff output whose status is
   not `submitted` or that has no task id has the entry `skipped` with no rankings,
   and no task_get call was made for its task id, if it has one. *)
C23_SkippedWithoutPolling ==
    Finished =>
        \A p \in KeywordPlaces(takeOffData) :
            ~Pending(p) =>
                /\ HasEntry(results.groups, takeOffData, p)
                /\ EntryAt(results.groups, takeOffData, p) = Entry("skipped", <<>>)
                /\ TaskAt(p) # NoTask => getLog[TaskAt(p)].calls = 0

-----------------------------------------------------------------------------
(* Landing, started once, against a service whose every call returns a result,
   returns no result yet, or throws *)

PollTotal == 2

InitPoll ==
    /\ \E layout \in Layouts, kind \in SpecialKinds, sp \in 0..PollTotal :
          /\ sp = 0 => kind = "never"
          /\ takeoffFile = JsonFile(Scenario(PollTotal, layout, sp, kind))
          /\ endpoint = ScenarioEndpoint(PollTotal, sp, kind)
    /\ landingFile = Absent
    /\ file0 = landingFile
    /\ InitIdle
    /\ InitHistory
    /\ InitUpstreamIdle
    /\ rankingPages = <<>>
    /\ serviceLocationData = EmptyMap
    /\ placeholders = <<>>
    /\ preflightFile = Absent
    /\ nextTaskId = 1
    /\ launches = 0
    /\ InitSheetIdle

(* node landThePlane.js, run once *)
LandingOnce == lastRun = "none" /\ LandingStart

NextPoll ==
    \/ Step(LandingOnce)
    \/ Step(LandLoad)
    \/ Step(LandGroup)
    \/ Step(LandItem)
    \/ Step(LandKeyword)
    \/ Step(PollCall)
    \/ Step(SaveCheckpoint)
    \/ Step(LandingWrite)

(* the event loop runs the program as long as it has a step to take *)
SpecPoll == InitPoll /\ [][NextPoll]_vars /\ WF_vars(NextPoll)

(* the program makes a task_get call in this step *)
Calls ==
    /\ pc = "l_poll"
    /\ getLog'[CurKeyword.task_id].calls = getLog[CurKeyword.task_id].calls + 1

(* C24: in one poll loop thrown calls and calls without result are counted by the
   same counter, which counts every call made so far, and no task gets more than 30
   calls; a thrown call before the 30th leaves the loop running; a call that returns
   a result makes the keyword `completed` with the rankings of that result. *)
C24_SharedPollBudget ==
    /\ [](\A t \in DOMAIN getLog : getLog[t].calls <= maxAttempts)
    /\ [](pc = "l_poll" => attempts = getLog[CurKeyword.task_id].calls)
    /\ [][Calls =>
            LET id == CurKeyword.task_id
            IN /\ (getLog'[id].last = "throws" /\ getLog'[id].calls < maxAttempts) =>
                     pc' = "l_poll" /\ results' = results
               /\ getLog'[id].last = "result" =>
                     /\ pc' # "l_poll"
                     /\ results'.groups[CurGroup.location][cur.newItem].keywords[CurKeyword.keyword]
                           = Entry("completed", extractRankingData(endpoint[id].result))]_vars

(* C24 witness: a keyword completed by its 30th call, after thrown calls and calls
   without result *)
C24_Witness ==
    \E t \in DOMAIN getLog :
        /\ getLog[t].outcome = "completed"
        /\ getLog[t].calls = maxAttempts
        /\ getLog[t].thrown
        /\ getLog[t].notReady

(* C25: whatever each task_get call answers, no task gets more than 30 calls and
   Landing comes to its end: every keyword of the input has been visited and the
   results are saved. *)
C25_LandingTerminates ==
    /\ [](\A t \in DOMAIN getLog : getLog[t].calls <= maxAttempts /\ attempts <= maxAttempts)
    /\ <>[](/\ Finished
            /\ visited = totalKeywords
            /\ saves >= 2
            /\ landingFile = Stringify(results))

(* C25 witness: a finished run in which one task used up its 30 calls, some of them
   thrown, and a later keyword was still processed *)
C25_Witness ==
    /\ Finished
    /\ visited = totalKeywords
    /\ \E t \in DOMAIN getLog :
          /\ getLog[t].outcome = "error"
          /\ getLog[t].calls = maxAttempts
          /\ getLog[t].thrown
          /\ \E u \in DOMAIN getLog : u > t /\ getLog[u].outcome # "none"

-----------------------------------------------------------------------------
(* Landing resumed from a partial snapshot: landing-results.json holds the    *)
(* result of an earlier complete run from which one location group or one     *)
(* item container is missing.                                                 *)

WithoutGroup(groups, location) == [l \in (DOMAIN groups) \ {location} |-> groups[l]]

WithoutContainer(groups, location, j) ==
    [l \in DOMAIN groups |->
        IF l = location
        THEN [n \in 1..(Len(groups[l]) - 1) |-> groups[l][IF n < j THEN n ELSE n + 1]]
        ELSE groups[l]]

PartialSnapshots(data, ep) ==
    LET groups == Uninterrupted(data, ep).groups
    IN {[kind |-> "snapshot", val |-> WithoutGroup(groups, l)] : l \in DOMAIN groups}
       \cup UNION {{[kind |-> "snapshot", val |-> WithoutContainer(groups, l, j)] :
                        j \in 1..Len(groups[l])} : l \in DOMAIN groups}

InitMerge ==
    /\ \E layout \in Layouts, kind \in SpecialKinds, sp \in 0..PollTotal :
          /\ sp = 0 => kind = "never"
          /\ takeoffFile = JsonFile(Scenario(PollTotal, layout, sp, kind))
          /\ endpoint = ScenarioEndpoint(PollTotal, sp, kind)
          /\ landingFile \in PartialSnapshots(takeoffFile.val, endpoint)
    /\ file0 = landingFile
    /\ InitIdle
    /\ InitHistory
    /\ InitUpstreamIdle
    /\ rankingPages = <<>>
    /\ serviceLocationData = EmptyMap
    /\ placeholders = <<>>
    /\ preflightFile = Absent
    /\ nextTaskId = 1
    /\ launches = 0
    /\ InitSheetIdle

NextMerge ==
    \/ Step(LandingOnce)
    \/ Step(LandLoad)
    \/ Step(LandGroup)
    \/ Step(LandItem)
    \/ Step(LandKeyword)
    \/ Step(Poll)
    \/ Step(SaveCheckpoint)
    \/ Step(LandingWrite)

SpecMerge == InitMerge /\ [][NextMerge]_vars

(* the snapshot the run started from has no container for item i of group g *)
Lacks(g, i) ==
    LET location == takeOffData[g].location
    IN \/ location \notin DOMAIN loaded.groups
       \/ FirstWithService(loaded.groups[location], takeOffData[g].items[i].service) = 0

(* every container and every entry of the loaded snapshot is where it was, and a *)
(* completed entry is what it was                                                *)
SnapshotKept ==
    \A l \in DOMAIN loaded.groups :
        /\ l \in DOMAIN results.groups
        /\ Len(loaded.groups[l]) <= Len(results.groups[l])
        /\ \A j \in 1..Len(loaded.groups[l]) :
              LET was == loaded.groups[l][j]
                  now == results.groups[l][j]
              IN /\ now.service = was.service
                 /\ \A K \in DOMAIN was.keywords :
                       /\ K \in DOMAIN now.keywords
                       /\ was.keywords[K].status = "completed" => now.keywords[K] = was.keywords[K]

(* C26: when the loaded checkpoint is a well-formed snapshot that lacks a group or
   a service of the Takeoff input, Landing does not fail, it creates the missing
   group and the container of the service and gives every keyword of the input an
   entry with a final status, and everything that was in the snapshot is still in the
   results, during the run and at its end. *)
C26_PartialSnapshotMerges ==
    /\ lastRun # "failed"
    /\ (Running \/ Finished) => SnapshotKept
    /\ Finished =>
          /\ landingFile = Stringify(results)
          /\ \A p \in KeywordPlaces(takeOffData) :
                /\ HasEntry(results.groups, takeOffData, p)
                /\ EntryAt(results.groups, takeOffData, p).status \in {"completed", "error", "skipped"}

(* C26 witness: a finished run whose snapshot lacked the container of an item and
   held a completed entry of another one; the keyword of the missing item is now
   completed next to it *)
C26_Witness ==
    /\ Finished
    /\ \E p \in KeywordPlaces(takeOffData) :
          /\ Lacks(p[1], p[2])
          /\ EntryAt(results.groups, takeOffData, p).status = "completed"
    /\ \E l \in DOMAIN loaded.groups : \E j \in 1..Len(loaded.groups[l]) :
          \E K \in DOMAIN loaded.groups[l][j].keywords :
              loaded.groups[l][j].keywords[K].status = "completed"

-----------------------------------------------------------------------------
(* Further properties of Takeoff (Spec) *)

(* the task_post calls made for item i of group g *)
PostsOf(g, i) == {n \in 1..Len(postLog) : postLog[n].g = g /\ postLog[n].i = i}

(* a step of Step 4 within one item *)
SubmitsNext == pc = "t_post" /\ pc' = "t_post" /\ tcur'.k = tcur.k + 1

(* C27: when Takeoff has finished, its output holds for every item one record per
   entry of the item's keywords list, as many as task_post calls were made for the
   item; and a record that has its status is not changed by a later submission. *)
C27_OneTaskPerKeyword ==
    /\ [](TakeoffDone =>
            \A g \in 1..Len(takeoffFile.val) : \A i \in 1..Len(takeoffFile.val[g].items) :
                /\ Len(takeoffFile.val[g].items[i].keywords)
                      = Len(launch.preflight.val[g].items[i].keywords)
                /\ Len(takeoffFile.val[g].items[i].keywords) = Cardinality(PostsOf(g, i)))
    /\ [][SubmitsNext =>
            \A j \in 1..Len(processedItem.keywords) :
                processedItem.keywords[j].status # "none" =>
                    processedItem'.keywords[j] = processedItem.keywords[j]]_vars

-----------------------------------------------------------------------------
(* The order of the calls (SpecOrder) *)

(* place p comes before place q in the order of the loops: group, item, keyword *)
Before(p, q) ==
    \/ p[1] < q[1]
    \/ p[1] = q[1] /\ p[2] < q[2]
    \/ p[1] = q[1] /\ p[2] = q[2] /\ p[3] < q[3]

TakeoffLoops == pc \in {"t_group", "t_item", "t_post", "t_write"}

(* the n-th task_post is for the next entry of the keywords list of its item, its
   item is not before the item of the call before it, and every item before its
   item has had one call per entry *)
PostInOrder(n) ==
    LET g == postLog[n].g
        i == postLog[n].i
        earlier == {m \in PostsOf(g, i) : m < n}
    IN /\ postLog[n].keyword = preFlight[g].items[i].keywords[Cardinality(earlier) + 1]
       /\ n > 1 => ~Before(<<g, i, 0>>, <<postLog[n - 1].g, postLog[n - 1].i, 0>>)
       /\ \A h \in 1..g : \A j \in 1..Len(preFlight[h].items) :
             Before(<<h, j, 0>>, <<g, i, 0>>) =>
                 Cardinality(PostsOf(h, j)) = Len(preFlight[h].items[j].keywords)

(* the keyword at p has an entry with a final status *)
Terminal(p) ==
    /\ HasEntry(results.groups, takeOffData, p)
    /\ EntryAt(results.groups, takeOffData, p).status \in {"completed", "error", "skipped"}

(* while the poll loop of a keyword runs, every keyword before it is terminal and no
   keyword after it has been polled *)
PollInOrder ==
    \A p \in KeywordPlaces(takeOffData) :
        /\ Before(p, <<cur.g, cur.i, cur.k>>) => Terminal(p)
        /\ (Before(<<cur.g, cur.i, cur.k>>, p) /\ TaskAt(p) # NoTask) => getLog[TaskAt(p)].calls = 0

(* a step makes one call at most: one task_post, or one task_get for one task *)
OneCallAtMost ==
    LET polled == {t \in (DOMAIN getLog) \cap (DOMAIN getLog') : getLog'[t].calls # getLog[t].calls}
        posted == Len(postLog') > Len(postLog)
    IN /\ Cardinality(polled) <= 1
       /\ \A t \in polled : getLog'[t].calls = getLog[t].calls + 1 /\ pc = "l_poll"
                            /\ t = CurKeyword.task_id
       /\ posted => Len(postLog') = Len(postLog) + 1 /\ polled = {} /\ pc = "t_post"

(* pre-flight-output.json with the groups and items of a layout: each item with the
   keyword texts of its list *)
PreflightOf(data) ==
    [g \in 1..Len(data) |->
        [location |-> data[g].location,
         items |-> [i \in 1..Len(data[g].items) |->
                      [data[g].items[i] EXCEPT !.keywords =
                          [k \in 1..Len(data[g].items[i].keywords) |->
                              data[g].items[i].keywords[k].keyword]]]]]

(* Takeoff and Landing on a Preflight output of MaxTasks keywords in one or two
   items; one task at most never gets a result *)
InitOrder ==
    /\ \E layout \in Layouts :
          preflightFile = JsonFile(PreflightOf(Scenario(MaxTasks, layout, 0, "never")))
    /\ \E never \in 0..MaxTasks :
          endpoint = [t \in 1..MaxTasks |-> IF t = never THEN Never ELSE Ready(t)]
    /\ rankingPages = <<>>
    /\ serviceLocationData = EmptyMap
    /\ placeholders = <<>>
    /\ takeoffFile = Absent
    /\ landingFile = Absent
    /\ file0 = landingFile
    /\ nextTaskId = 1
    /\ launches = 0
    /\ InitSheetIdle
    /\ InitUpstreamIdle
    /\ InitIdle
    /\ InitHistory

(* node buildTakeOff.js, then node landThePlane.js when Takeoff has ended *)
TakeoffOnce == lastRun = "none" /\ TakeoffStart
LandingAfterTakeoff == launch.program = "takeoff" /\ LandingStart

NextOrder ==
    \/ Step(TakeoffOnce)
    \/ Step(LandingAfterTakeoff)
    \/ Step(TakeoffLoad)
    \/ Step(TakeoffGroup)
    \/ Step(TakeoffItem)
    \/ Step(TakeoffPost)
    \/ Step(TakeoffWrite)
    \/ Step(LandLoad)
    \/ Step(LandGroup)
    \/ Step(LandItem)
    \/ Step(LandKeyword)
    \/ Step(Poll)
    \/ Step(SaveCheckpoint)
    \/ Step(LandingWrite)

SpecOrder == InitOrder /\ [][NextOrder]_vars

(* C28: Takeoff and Landing make their calls one at a time: no step makes more than
   one call; the task_post calls are made in the order of the input (group, then
   item, then keyword); and while a keyword is polled every keyword before it has
   its final status and no keyword after it has been polled. *)
C28_SequentialOrderedCalls ==
    /\ [](TakeoffLoops => \A n \in 1..Len(postLog) : PostInOrder(n))
    /\ [](pc = "l_poll" => PollInOrder)
    /\ [][OneCallAtMost]_vars

(* C28 witness: Landing polls a keyword of the second item of an output that
   Takeoff filled with submitted keywords in two items; the keyword of the first
   item has been polled and has its final status *)
C28_Witness ==
    /\ pc = "l_poll"
    /\ <<cur.g, cur.i>> # <<1, 1>>
    /\ Terminal(<<1, 1, 1>>)
    /\ TaskAt(<<1, 1, 1>>) # NoTask
    /\ getLog[TaskAt(<<1, 1, 1>>)].calls >= 1

-----------------------------------------------------------------------------
(* Takeoff run by buildTakeOff.js itself or by takeoff() of governor.js *)

(* governor.js with takeoff() as the phase it runs: the test for the Preflight
   output, then buildTakeOff(preFlight, dataForSeoConfig) *)
GovernorTakeoffOnce ==
    /\ lastRun = "none"
    /\ StartProgram("governor_takeoff")
    /\ pc' = TakeoffEntry(preflightFile)
    /\ lastRun' = IF pc' = "idle" THEN "exit" ELSE "running"

NextAuth ==
    \/ Step(TakeoffOnce)
    \/ Step(GovernorTakeoffOnce)
    \/ Step(TakeoffLoad)
    \/ Step(TakeoffGroup)
    \/ Step(TakeoffItem)
    \/ Step(TakeoffPost)
    \/ Step(TakeoffWrite)

SpecAuth == InitOrder /\ [][NextAuth]_vars

(* C29: every task_post request carries the Authorization value of the credentials
   file, whether Takeoff was started by buildTakeOff.js or by the governor's
   takeoff(). *)
C29_CredentialsReachEveryCall ==
    \A n \in 1..Len(postLog) : postLog[n].authorization = Credentials.Authorization

-----------------------------------------------------------------------------
(* Further properties of Preflight (SpecPreflight) *)

(* C30: in pre-flight-output.json every row of a known city has its item, and the
   keywords list of an item is non-empty only if the city has a definition of the
   item's service and there is at least one template; without the definition or
   without a template the item is there with keywords = []. *)
C30_KeywordsOnlyWithServiceAndTemplate ==
    PreflightWritten =>
        \A g \in 1..Len(KnownPages) :
            /\ g <= Len(preflightFile.val)
            /\ Len(preflightFile.val[g].items) = Len(KnownPages[g].rows)
            /\ \A r \in 1..Len(KnownPages[g].rows) :
                  LET item == preflightFile.val[g].items[r]
                  IN /\ item.keywords # <<>> => (ServiceOf(g, r) # 0 /\ Len(placeholders) >= 1)
                     /\ (ServiceOf(g, r) = 0 \/ placeholders = <<>>) => item.keywords = <<>>

(* C30 witness: an output with an item that has queries next to an item whose
   service has no definition and whose keywords list is empty *)
C30_Witness ==
    /\ PreflightWritten
    /\ \E g \in 1..Len(preflightFile.val) : \E r, q \in 1..Len(preflightFile.val[g].items) :
          /\ ServiceOf(g, r) # 0
          /\ preflightFile.val[g].items[r].keywords # <<>>
          /\ ServiceOf(g, q) = 0
          /\ preflightFile.val[g].items[q].keywords = <<>>

-----------------------------------------------------------------------------
(* Preflight on inputs with holes: a row without location name, a row whose     *)
(* location or service has no entry, a city without locations or services list. *)

RowNoLocation == [service |-> "wildlife removal", intended_url |-> "u4"]

FaultRowLists ==
    {<<RowGarland, RowPlano>>, <<RowPlano, RowGarland>>, <<RowGarland, RowNoLocation>>,
     <<RowNoLocation, RowGarland>>, <<RowPlanoWildlife, RowGarland>>}

(* service_location_data.json of a city: complete, or without one of its lists *)
CityShapes(keyword_list) ==
    {CityData(keyword_list),
     [brand |-> "AAAC", services |-> CityData(keyword_list).services],
     [brand |-> "AAAC", locations |-> CityData(keyword_list).locations]}

InitFaults ==
    /\ \E rows \in FaultRowLists : rankingPages \in PreflightPages(rows)
    /\ \E list \in SeqsUpTo({"wildlife removal"}, MaxKeywords) : \E cityData \in CityShapes(list) :
          serviceLocationData = [c \in {"Dallas"} |-> cityData]
    /\ placeholders \in SeqsUpTo({TemplateNear, TemplateBrand}, MaxTemplates)
    /\ preflightFile = Absent
    /\ takeoffFile = Absent
    /\ landingFile = Absent
    /\ file0 = landingFile
    /\ nextTaskId = 1
    /\ launches = 0
    /\ InitSheetIdle
    /\ endpoint = [t \in 1..MaxTasks |-> Ready(t)]
    /\ InitUpstreamIdle
    /\ InitIdle
    /\ InitHistory

SpecFaults == InitFaults /\ [][NextPreflight]_vars

PreflightEnded == launch.program \in {"preflight", "governor"} /\ pc = "idle" /\ lastRun # "crashed"

(* C31: for every input Preflight ends with its output written and no error raised;
   every row of a known city has its item in the output, whatever is missing in
   this row or in another one. *)
C31_PreflightNeverRaises ==
    PreflightEnded =>
        /\ lastRun = "done"
        /\ PreflightWritten
        /\ Len(preflightFile.val) = Len(KnownPages)
        /\ \A g \in 1..Len(KnownPages) :
              /\ Len(preflightFile.val[g].items) = Len(KnownPages[g].rows)
              /\ \A r \in 1..Len(KnownPages[g].rows) :
                    preflightFile.val[g].items[r].service = KnownPages[g].rows[r].service

-----------------------------------------------------------------------------
(* Further properties of Landing: items and their results (SpecLanding) *)

(* the result item of item i of group g: the i-th container of the group, as
   loadCheckpoint lays the containers out, holds an entry for every keyword of the
   item *)
OwnResults(g, i) ==
    LET location == takeOffData[g].location
        item == takeOffData[g].items[i]
    IN /\ i <= Len(results.groups[location])
       /\ results.groups[location][i].service = item.service
       /\ \A k \in 1..Len(item.keywords) :
             /\ item.keywords[k].keyword \in DOMAIN results.groups[location][i].keywords
             /\ results.groups[location][i].keywords[item.keywords[k].keyword].status
                   \in {"completed", "error", "skipped"}

(* C32: when Landing has finished, the results of a group hold one item per Takeoff
   item of the group, and the result item of every Takeoff item holds an entry with
   status completed, error or skipped for every keyword of that item, also when two
   items of the group have the same service name. *)
C32_ResultsStayWithTheirItem ==
    Finished =>
        \A g \in 1..Len(takeOffData) :
            /\ takeOffData[g].location \in DOMAIN results.groups
            /\ Len(results.groups[takeOffData[g].location])
                  = Cardinality({h \in 1..Len(takeOffData) :
                                    takeOffData[h].location = takeOffData[g].location})
                    * Len(takeOffData[g].items)
            /\ \A i \in 1..Len(takeOffData[g].items) : OwnResults(g, i)

-----------------------------------------------------------------------------
(* Landing of a new pipeline run in a directory where an earlier, finished run  *)
(* has left its landing-results.json: same tracked rows and keywords, the task  *)
(* ids of the earlier Takeoff.                                                  *)

(* the ids of the earlier tasks are other ids, with other payloads *)
EarlierIdShift == Len(Payloads) + 1

EarlierTakeoff(data) ==
    [g \in 1..Len(data) |->
        [data[g] EXCEPT !.items =
            [i \in 1..Len(data[g].items) |->
                [data[g].items[i] EXCEPT !.keywords =
                    [k \in 1..Len(data[g].items[i].keywords) |->
                        [keyword |-> data[g].items[i].keywords[k].keyword,
                         task_id |-> k + i * PollTotal + EarlierIdShift,
                         status |-> "submitted"]]]]]]

(* what landing() of the earlier run wrote at its end *)
EarlierResults(data) ==
    LET earlier == EarlierTakeoff(data)
    IN Stringify(Uninterrupted(earlier, [t \in TaskIds(earlier) |-> Ready(t)]))

InitStale ==
    /\ \E layout \in Layouts, kind \in SpecialKinds, sp \in 0..PollTotal :
          /\ sp = 0 => kind = "never"
          /\ takeoffFile = JsonFile(Scenario(PollTotal, layout, sp, kind))
          /\ endpoint = ScenarioEndpoint(PollTotal, sp, kind)
          /\ landingFile \in {Absent, EarlierResults(takeoffFile.val)}
    /\ file0 = landingFile
    /\ InitIdle
    /\ InitHistory
    /\ InitUpstreamIdle
    /\ rankingPages = <<>>
    /\ serviceLocationData = EmptyMap
    /\ placeholders = <<>>
    /\ preflightFile = Absent
    /\ nextTaskId = 1
    /\ launches = 0
    /\ InitSheetIdle

SpecStale == InitStale /\ [][NextMerge]_vars

(* C33: in the final output of Landing every keyword with status completed holds
   the rankings extracted from the result of the task id that the Takeoff input of
   this run records for it, also when an earlier finished run has left its
   landing-results.json. *)
C33_ResultsOfThisRun ==
    Finished =>
        /\ landingFile = Stringify(results)
        /\ \A p \in KeywordPlaces(takeOffData) :
              (/\ HasEntry(results.groups, takeOffData, p)
               /\ EntryAt(results.groups, takeOffData, p).status = "completed") =>
                  /\ TaskAt(p) # NoTask
                  /\ endpoint[TaskAt(p)].kind = "ready"
                  /\ EntryAt(results.groups, takeOffData, p).rankings
                        = extractRankingData(endpoint[TaskAt(p)].result)

-----------------------------------------------------------------------------
(* Resume and the statuses of the checkpoint (SpecLanding) *)

(* the status the checkpoint Landing started from holds for the keyword at p *)
LoadedStatus(p) ==
    IF HasEntry(loaded.groups, takeOffData, p)
    THEN EntryAt(loaded.groups, takeOffData, p).status ELSE "none"

(* the loop takes the next keyword of the current item *)
TakesKeyword == pc = "l_kw" /\ cur'.k = cur.k + 1 /\ pc' # "idle"

(* the keyword is passed over: nothing is polled, written or counted *)
PassedOver == pc' = "l_kw" /\ results' = results /\ processedCount' = processedCount

(* C34: in a run of Landing only an entry with status completed makes the loop pass
   a keyword over: a keyword whose entry is error, skipped or missing is polled from
   attempts = 0 when Takeoff submitted it, and is marked skipped and counted again
   otherwise; a keyword checkpointed as error and submitted is polled in the resumed
   run, 30 times when its task never gets a result. *)
C34_OnlyCompletedSkipped ==
    /\ [][TakesKeyword =>
            LET keywordData == CurItem.keywords[cur.k + 1]
                done == /\ keywordData.keyword \in DOMAIN CurContainer.keywords
                        /\ CurContainer.keywords[keywordData.keyword].status = "completed"
            IN /\ PassedOver <=> done
               /\ (~done /\ ShouldPoll(keywordData)) => (pc' = "l_poll" /\ attempts' = 0)
               /\ (~done /\ ~ShouldPoll(keywordData)) =>
                     /\ processedCount' = processedCount + 1
                     /\ results'.groups[CurGroup.location][cur.newItem].keywords[keywordData.keyword]
                           = Entry("skipped", <<>>)]_vars
    /\ [](Finished =>
            \A p \in KeywordPlaces(takeOffData) :
                (LoadedStatus(p) = "error" /\ ShouldPoll(KeywordAt(p))) =>
                    /\ getLog[TaskAt(p)].calls >= 1
                    /\ endpoint[TaskAt(p)].kind = "never" => getLog[TaskAt(p)].calls = maxAttempts)

(* C34 witness: a finished run that started from a checkpoint with an error entry
   of a submitted keyword and polled that keyword 30 times again *)
C34_Witness ==
    /\ Finished
    /\ \E p \in KeywordPlaces(takeOffData) :
          /\ LoadedStatus(p) = "error"
          /\ ShouldPoll(KeywordAt(p))
          /\ getLog[TaskAt(p)].calls = maxAttempts

(* C35: throughout a run of Landing, fresh or resumed from a checkpoint of the same
   Takeoff input, processedCount is at most the number of keywords of the input,
   and it is that number when Landing has finished. *)
C35_ProgressCounter ==
    /\ (Running \/ Finished) => processedCount <= totalKeywords
    /\ Finished => processedCount = totalKeywords

-----------------------------------------------------------------------------
(* The write of takeoff-output.json (Spec) *)

TakeoffRunning == launch.program = "takeoff" /\ pc \in {"t_load", "t_group", "t_item", "t_post"}

(* every keyword entry of the Preflight output has had its task_post call *)
AllPosted == Len(postLog) = KeywordEntries(preFlight)

(* C36: takeoff-output.json changes only in the step that follows the last
   submission of the batch, which ends the run, so it is written once; while Takeoff
   loads and submits, and after a Takeoff killed in that time, the file is what it
   was when Takeoff started, and no task id obtained in the run is in it. *)
C36_TakeoffPersistsOnce ==
    /\ [][takeoffFile' # takeoffFile =>
            /\ launch.program = "takeoff"
            /\ pc = "t_write"
            /\ pc' = "idle"
            /\ AllPosted]_vars
    /\ [](TakeoffRunning =>
            /\ takeoffFile = launch.takeoff
            /\ takeoffFile.kind = "json" =>
                  \A n \in 1..Len(postLog) :
                      postLog[n].id # NoTask => postLog[n].id \notin TaskIds(takeoffFile.val))
    /\ [][(TakeoffRunning /\ lastRun' = "crashed") => takeoffFile' = launch.takeoff]_vars
    /\ [](TakeoffDone => takeoffFile.kind = "json")

(* C36 witness: a second Takeoff has obtained a task id while takeoff-output.json
   still holds the output of the first one *)
C36_Witness ==
    /\ TakeoffRunning
    /\ launch.takeoff.kind = "json"
    /\ takeoffFile = launch.takeoff
    /\ \E n \in 1..Len(postLog) : postLog[n].id # NoTask

-----------------------------------------------------------------------------
(* One fetch per stored task, then the store is emptied (SpecSheet, desktop script) *)

(* the read of the task list by the Get Results run that ran last *)
LastRead ==
    CHOOSE n \in DOMAIN sheetLog :
        /\ sheetLog[n].op = "read"
        /\ \A m \in DOMAIN sheetLog : m > n => sheetLog[m].op # "read"

(* the task_get calls of that run for a task id *)
GetsOf(id) ==
    {n \in DOMAIN sheetLog : n > LastRead /\ sheetLog[n].op = "get" /\ sheetLog[n].id = id}

(* C37: when a Get Results run of the desktop script has returned, every task it read
   from Script Properties had exactly one task_get call, every task whose fetch threw
   or that was not ready has 'Not Found' in both cells of its row, and the stored list
   is gone whatever the statuses; a Get Results that reads an empty store returns with
   "no jobs" and makes no call. *)
C37_SingleFetchThenDiscard ==
    /\ []((variant = "desktop" /\ ResultsWritten) =>
            /\ Len(script.results) = Len(script.taskIds)
            /\ \A n \in DOMAIN script.taskIds :
                  /\ Cardinality(GetsOf(script.taskIds[n].taskId)) = 1
                  /\ script.results[n].taskId = script.taskIds[n].taskId
                  /\ script.results[n].status # "completed" =>
                        rankCells[script.taskIds[n].rowIndex] =
                            [rank |-> NotFoundCell, url |-> NotFoundUrl]
            /\ ~props.present
            /\ getStoredTaskIds(props, clock) = <<>>)
    /\ [][(variant = "desktop" /\ script.pc = "g_read" /\ ~props.present) =>
            /\ script'.pc = "idle"
            /\ script'.outcome = "nojobs"
            /\ UNCHANGED <<rankCells, props>>]_vars

(* C37 witness: after a daily check whose only fetch did not complete and left
   'Not Found' in the row, Get Results has found no stored task *)
C37_Witness ==
    /\ variant = "desktop"
    /\ script.handler = "get"
    /\ script.outcome = "nojobs"
    /\ \E n \in DOMAIN sheetLog : sheetLog[n].op = "get" /\ sheetLog[n].handler = "daily"
    /\ \E i \in DOMAIN rankCells : rankCells[i] = [rank |-> NotFoundCell, url |-> NotFoundUrl]


=============================================================================
